---- MODULE Spec2Model ----
(***************************************************************************)
(* Local-first persistence (src/lib/storage.ts) and background sync        *)
(* (src/lib/sync.ts) of the resilience toolkit, as a state machine.        *)
(*                                                                         *)
(* Every `await` of the source is a suspension point: an async function    *)
(* is modelled as a small process whose steps are the stretches of code    *)
(* between two awaits, so that other tasks interleave exactly where the    *)
(* event loop lets them.                                                   *)
(***************************************************************************)
EXTENDS Integers, Sequences, FiniteSets, TLC

VARIABLES
    \* ---- storage.ts: the connection singleton ----
    dbInstance,     \* module variable dbInstance: NoConn or a connection id
    nConns,         \* connections openDB has established so far
    caller,         \* getDB invocations in flight: [pc, conn] per caller
    \* ---- storage.ts: the object stores ----
    todos,          \* object store 'todos': key -> record or NoRec
    tables,         \* object store 'tables': key -> record or NoRec
    now,            \* the clock read by new Date().toISOString()
    \* ---- EditableTable.tsx and the other UI callers ----
    rows,           \* EditableTable's state `rows` (array of row copies)
    ui,             \* the UI handler in flight, suspended at an await
    \* ---- sync.ts and its collaborators ----
    configured,     \* isSupabaseConfigured(): both env values present
    currentHubId,   \* module variable currentHubId
    b,              \* the syncAll invocation in flight and its locals
    remoteLog,      \* upserts the remote store received from this batch
    \* ---- observation of one batch, for stating the properties ----
    obs,            \* what happened around the batch in flight
    nEnvOps,        \* UI handlers and hub changes started so far
    \* ---- sync.ts: the polling scheduler ----
    syncInterval,   \* module variable syncInterval: NoTimer or a timer id
    timers,         \* the window's active interval timers (their ids)
    nTimers,        \* timer ids window.setInterval has handed out so far
    online,         \* navigator.onLine
    hist,           \* observation: the scheduler's last step
    \* ---- storage.ts called sequentially, with what the caller saw ----
    call,           \* observation: the last call of the storage API
    liveRows,       \* observation: row identities saved and not deleted since
    nCalls,         \* storage API calls made so far
    \* ---- sync.ts: a second invocation of syncAll in flight ----
    b2,             \* the overlapping syncAll invocation and its locals
    remoteLog2,     \* upserts the remote store received from that invocation
    \* ---- ChecklistRow.tsx: handleToggle calls in flight ----
    toggler,        \* per handleToggle call: where it stands, what it read
    nToggled        \* toggleTodo calls that have completed

dbVars == <<dbInstance, nConns, caller>>
storeVars == <<todos, tables, now>>
syncVars == <<rows, ui, configured, currentHubId, b, remoteLog, obs, nEnvOps>>
schedVars == <<syncInterval, timers, nTimers, online, hist>>
apiVars == <<call, liveRows, nCalls>>
raceVars == <<b2, remoteLog2, toggler, nToggled>>

vars == <<dbInstance, nConns, caller, todos, tables, now, rows, ui,
          configured, currentHubId, b, remoteLog, obs, nEnvOps,
          syncInterval, timers, nTimers, online, hist, call, liveRows, nCalls,
          b2, remoteLog2, toggler, nToggled>>

(***************************************************************************)
(* Bounds                                                                  *)
(***************************************************************************)
NumCallers == 3     \* concurrent getDB callers
MaxConns == 3       \* connections opened in one run
MaxTime == 2        \* clock values 1..MaxTime
MaxEnvOps == 3      \* UI handlers and hub changes in one run
MaxTimers == 2      \* interval timers created in one run
MaxCalls == 3       \* sequential storage API calls in one run
NumTogglers == 2    \* handleToggle calls in flight at once
MaxToggles == 4     \* handleToggle calls in one run

(***************************************************************************)
(* getDB (storage.ts:80-119)                                               *)
(***************************************************************************)
NoConn == 0
Callers == 1..NumCallers

InitDB ==
    /\ dbInstance = NoConn
    /\ nConns = 0
    /\ caller = [c \in Callers |-> [pc |-> "idle", conn |-> NoConn]]

\* getDB up to its first await: return the cached instance, or call openDB.
GetDBCall(c) ==
    /\ caller[c].pc = "idle"
    /\ IF dbInstance # NoConn
       THEN caller' = [caller EXCEPT ![c] = [pc |-> "done", conn |-> dbInstance]]
       ELSE caller' = [caller EXCEPT ![c] = [pc |-> "opening", conn |-> NoConn]]
    /\ UNCHANGED <<dbInstance, nConns>>

\* openDB resolves with a new connection; getDB stores and returns it.
OpenResolve(c) ==
    /\ caller[c].pc = "opening"
    /\ nConns < MaxConns
    /\ nConns' = nConns + 1
    /\ dbInstance' = nConns + 1
    /\ caller' = [caller EXCEPT ![c] = [pc |-> "done", conn |-> nConns + 1]]

\* openDB rejects (storage unavailable); getDB rejects and dbInstance stays null.
OpenReject(c) ==
    /\ caller[c].pc = "opening"
    /\ caller' = [caller EXCEPT ![c] = [pc |-> "failed", conn |-> NoConn]]
    /\ UNCHANGED <<dbInstance, nConns>>

\* The caller has consumed the result; the same task may call getDB again.
GetDBReturn(c) ==
    /\ caller[c].pc \in {"done", "failed"}
    /\ caller' = [caller EXCEPT ![c] = [pc |-> "idle", conn |-> NoConn]]
    /\ UNCHANGED <<dbInstance, nConns>>

NextDB ==
    \/ \E c \in Callers : GetDBCall(c) /\ UNCHANGED <<storeVars, syncVars, schedVars, apiVars, raceVars>>
    \/ \E c \in Callers : OpenResolve(c) /\ UNCHANGED <<storeVars, syncVars, schedVars, apiVars, raceVars>>
    \/ \E c \in Callers : OpenReject(c) /\ UNCHANGED <<storeVars, syncVars, schedVars, apiVars, raceVars>>
    \/ \E c \in Callers : GetDBReturn(c) /\ UNCHANGED <<storeVars, syncVars, schedVars, apiVars, raceVars>>

(***************************************************************************)
(* Records and composite keys (storage.ts:40-78, 125-133, 192-200)         *)
(***************************************************************************)
NoRec == [absent |-> TRUE]      \* db.get's undefined
NoTime == 0                     \* an absent optional timestamp
NoNote == "<undefined>"         \* an absent optional notes field

\* Identities the callers use.  Module keys and todo ids are slugs that may
\* themselves contain '-' ("emergency-preparedness", "sectionId-itemId").
ModuleKeys == {"m", "m-a"}
TodoIds == {"t", "a-t"}
TableIds == {"tb", "a-tb"}
RowIds == {"row-0"}

\* `${moduleKey}-${todoId}`
TodoKey(moduleKey, todoId) == moduleKey \o "-" \o todoId

\* `${moduleKey}-${tableId}-${rowId}`
TableKey(moduleKey, tableId, rowId) == moduleKey \o "-" \o tableId \o "-" \o rowId

TodoKeySpace == {TodoKey(m, t) : m \in ModuleKeys, t \in TodoIds}
TableKeySpace ==
    {TableKey(m, tb, r) : m \in ModuleKeys, tb \in TableIds, r \in RowIds}

\* The keys in IndexedDB's key order (strings compare code unit by code
\* unit), the order in which db.getAll and the indexes return records.
TodoKeysSorted == <<"m-a-a-t", "m-a-t", "m-t">>
TableKeysSorted == <<"m-a-a-tb-row-0", "m-a-tb-row-0", "m-tb-row-0">>

\* getTodo: db.get('todos', id)
getTodo(moduleKey, todoId) == todos[TodoKey(moduleKey, todoId)]

\* getTableRow: db.get('tables', id)
getTableRow(moduleKey, tableId, rowId) == tables[TableKey(moduleKey, tableId, rowId)]

\* saveTodo: db.put('todos', { ...todo, id }) on the store `st`
saveTodo(st, todo) ==
    LET id == TodoKey(todo.moduleKey, todo.todoId)
    IN  [st EXCEPT ![id] =
            [id |-> id, moduleKey |-> todo.moduleKey, todoId |-> todo.todoId,
             completed |-> todo.completed, completedAt |-> todo.completedAt,
             notes |-> todo.notes, syncedAt |-> todo.syncedAt]]

\* saveTableRow: db.put('tables', { ...row, id, updatedAt: now }) on `st`
saveTableRow(st, row) ==
    LET id == TableKey(row.moduleKey, row.tableId, row.rowId)
    IN  [st EXCEPT ![id] =
            [id |-> id, moduleKey |-> row.moduleKey, tableId |-> row.tableId,
             rowId |-> row.rowId, data |-> row.data, updatedAt |-> now,
             syncedAt |-> row.syncedAt]]

InitStore ==
    /\ todos = [k \in TodoKeySpace |-> NoRec]
    /\ tables = [k \in TableKeySpace |-> NoRec]
    /\ now = 1

(***************************************************************************)
(* The storage API called directly (storage.ts:138-247), one IndexedDB     *)
(* request per call.                                                       *)
(***************************************************************************)
NoteInputs == {NoNote, "n"}
DataInputs == {[prompt |-> "p"], [prompt |-> "p", answer |-> "x"]}

ApiSaveTodo(moduleKey, todoId, completed, notes) ==
    /\ todos' = saveTodo(todos,
                    [moduleKey |-> moduleKey, todoId |-> todoId,
                     completed |-> completed,
                     completedAt |-> IF completed THEN now ELSE NoTime,
                     notes |-> notes, syncedAt |-> NoTime])
    /\ UNCHANGED <<tables, now>>

\* deleteTodo: db.delete('todos', id)
ApiDeleteTodo(moduleKey, todoId) ==
    /\ todos' = [todos EXCEPT ![TodoKey(moduleKey, todoId)] = NoRec]
    /\ UNCHANGED <<tables, now>>

ApiSaveTableRow(moduleKey, tableId, rowId, data) ==
    /\ tables' = saveTableRow(tables,
                    [moduleKey |-> moduleKey, tableId |-> tableId,
                     rowId |-> rowId, data |-> data, syncedAt |-> NoTime])
    /\ UNCHANGED <<todos, now>>

\* deleteTableRow: db.delete('tables', id)
ApiDeleteTableRow(moduleKey, tableId, rowId) ==
    /\ tables' = [tables EXCEPT ![TableKey(moduleKey, tableId, rowId)] = NoRec]
    /\ UNCHANGED <<todos, now>>

\* Time passes between two reads of the clock.
Tick ==
    /\ now < MaxTime
    /\ now' = now + 1
    /\ UNCHANGED <<todos, tables>>

NextStore ==
    \/ \E m \in ModuleKeys, t \in TodoIds, c \in BOOLEAN, n \in NoteInputs :
          ApiSaveTodo(m, t, c, n) /\ UNCHANGED <<dbVars, syncVars, schedVars, apiVars, raceVars>>
    \/ \E m \in ModuleKeys, t \in TodoIds :
          ApiDeleteTodo(m, t) /\ UNCHANGED <<dbVars, syncVars, schedVars, apiVars, raceVars>>
    \/ \E m \in ModuleKeys, tb \in TableIds, r \in RowIds, d \in DataInputs :
          ApiSaveTableRow(m, tb, r, d) /\ UNCHANGED <<dbVars, syncVars, schedVars, apiVars, raceVars>>
    \/ \E m \in ModuleKeys, tb \in TableIds, r \in RowIds :
          ApiDeleteTableRow(m, tb, r) /\ UNCHANGED <<dbVars, syncVars, schedVars, apiVars, raceVars>>
    \/ Tick /\ UNCHANGED <<dbVars, syncVars, schedVars, apiVars, raceVars>>

(***************************************************************************)
(* UI callers of the store: the checklist handlers (ChecklistRow.tsx,      *)
(* storage.ts:164-177, 427-442) and EditableTable (EditableTable.tsx).     *)
(* The pages of this model show the todos ("m","t") and ("m","a-t") and    *)
(* the table ("m","tb").                                                   *)
(***************************************************************************)
UiTodos == {<<"m", "t">>, <<"m", "a-t">>}
TableModule == "m"
TableId == "tb"
Columns == <<"prompt", "answer">>
initialData == <<[prompt |-> "p"]>>
CellValues == {"x", "y"}
InitialRowLimit == 1000

UiIdle == [op |-> "idle"]

\* syncAll has returned (or rejected) and its caller's continuation, a
\* microtask of the same turn of the event loop, has not run yet: no event
\* handler and no IndexedDB callback runs in between.
Settling == b.pc \in {"done", "rejected"}

\* What `obs` records of a store write made by the UI on record `id`, or of
\* a hub change, while a syncAll invocation has not yet been returned.
Wrote(id) == [obs EXCEPT !.uiWrites = IF b.pc = "idle" THEN @ ELSE @ \cup {id}]
HubMoved == [obs EXCEPT !.hubChanged = IF b.pc = "idle" THEN @ ELSE TRUE]

\* The exported saveTodo called by a page with a record that carries a note
\* and no syncedAt (the note editor of a checklist row).
UiSaveTodo(moduleKey, todoId, completed, notes) ==
    /\ ~Settling
    /\ nEnvOps < MaxEnvOps
    /\ ApiSaveTodo(moduleKey, todoId, completed, notes)
    /\ obs' = Wrote(TodoKey(moduleKey, todoId))
    /\ nEnvOps' = nEnvOps + 1
    /\ UNCHANGED <<rows, ui, configured, currentHubId, b, remoteLog>>
    /\ UNCHANGED dbVars

\* toggleTodo, first half: `const todo = await getTodo(moduleKey, todoId)`.
ToggleRead(moduleKey, todoId) ==
    /\ ~Settling
    /\ ui = UiIdle
    /\ nEnvOps < MaxEnvOps
    /\ ui' = [op |-> "toggle", moduleKey |-> moduleKey, todoId |-> todoId,
              todo |-> getTodo(moduleKey, todoId)]
    /\ nEnvOps' = nEnvOps + 1
    /\ UNCHANGED <<rows, configured, currentHubId, b, remoteLog, obs>>
    /\ UNCHANGED <<dbVars, storeVars>>

\* toggleTodo that forgets the note.
toggledDropsNote(moduleKey, todoId, todo) ==
    LET completed == IF todo = NoRec THEN TRUE ELSE ~todo.completed
    IN  [moduleKey |-> moduleKey, todoId |-> todoId, completed |-> completed,
         completedAt |-> IF completed THEN now ELSE NoTime,
         notes |-> NoNote, syncedAt |-> NoTime]

\* toggleTodo that stamps completedAt whatever the new flag is.
toggledKeepsStamp(moduleKey, todoId, todo) ==
    LET completed == IF todo = NoRec THEN TRUE ELSE ~todo.completed
    IN  [moduleKey |-> moduleKey, todoId |-> todoId, completed |-> completed,
         completedAt |-> now,
         notes |-> IF todo = NoRec THEN NoNote ELSE todo.notes,
         syncedAt |-> NoTime]

\* The record toggleTodo passes to saveTodo, given what getTodo returned.
toggled(moduleKey, todoId, todo) ==
    LET completed == IF todo = NoRec THEN TRUE ELSE ~todo.completed
    IN  [moduleKey |-> moduleKey, todoId |-> todoId, completed |-> completed,
         completedAt |-> IF completed THEN now ELSE NoTime,
         notes |-> IF todo = NoRec THEN NoNote ELSE todo.notes,
         syncedAt |-> NoTime]

\* toggleTodo, second half: `await saveTodo({...})`.
TogglePut ==
    /\ ~Settling
    /\ ui.op = "toggle"
    /\ todos' = saveTodo(todos, toggled(ui.moduleKey, ui.todoId, ui.todo))
    /\ ui' = UiIdle
    /\ obs' = Wrote(TodoKey(ui.moduleKey, ui.todoId))
    /\ UNCHANGED <<tables, now, rows, configured, currentHubId, b, remoteLog,
                   nEnvOps>>
    /\ UNCHANGED dbVars

\* The update lists batchUpdateChecklistItems is called with.
UpdateLists ==
    {<<[moduleKey |-> "m", todoId |-> "t", completed |-> c]>> : c \in BOOLEAN}
    \cup {<<[moduleKey |-> "m", todoId |-> "a-t", completed |-> c],
            [moduleKey |-> "m", todoId |-> "t", completed |-> c]>> : c \in BOOLEAN}

\* batchUpdateChecklistItems is called; its loop suspends at each saveTodo.
BatchUpdateCall(updates) ==
    /\ ~Settling
    /\ ui = UiIdle
    /\ nEnvOps < MaxEnvOps
    /\ ui' = [op |-> "batchUpdate", queue |-> updates]
    /\ nEnvOps' = nEnvOps + 1
    /\ UNCHANGED <<rows, configured, currentHubId, b, remoteLog, obs>>
    /\ UNCHANGED <<dbVars, storeVars>>

\* One iteration of batchUpdateChecklistItems' loop.
BatchUpdatePut ==
    /\ ~Settling
    /\ ui.op = "batchUpdate"
    /\ LET update == Head(ui.queue)
       IN  /\ todos' = saveTodo(todos,
                    [moduleKey |-> update.moduleKey, todoId |-> update.todoId,
                     completed |-> update.completed,
                     completedAt |-> IF update.completed THEN now ELSE NoTime,
                     notes |-> NoNote, syncedAt |-> NoTime])
           /\ obs' = Wrote(TodoKey(update.moduleKey, update.todoId))
    /\ ui' = IF Len(ui.queue) = 1 THEN UiIdle ELSE [ui EXCEPT !.queue = Tail(@)]
    /\ UNCHANGED <<tables, now, rows, configured, currentHubId, b, remoteLog,
                   nEnvOps>>
    /\ UNCHANGED dbVars

\* `row-${index}`
RowIdOf(index) == "row-" \o ToString(index)

\* isInitialRow: /^row-(\d+)$/ with a number below 1000
isInitialRow(rowId) == \E i \in 0..(InitialRowLimit - 1) : rowId = RowIdOf(i)

\* getTableRows: db.getAllFromIndex('tables', 'by-table', [moduleKey, tableId])
getTableRows(moduleKey, tableId) ==
    LET hit(k) == /\ tables[k] # NoRec
                  /\ tables[k].moduleKey = moduleKey
                  /\ tables[k].tableId = tableId
        keys == SelectSeq(TableKeysSorted, hit)
    IN  [i \in 1..Len(keys) |-> tables[keys[i]]]

\* The rows loadData builds from initialData when the table is empty.
newRows ==
    [i \in 1..Len(initialData) |->
        [id |-> TableModule \o "-" \o TableId \o "-" \o ToString(i - 1),
         moduleKey |-> TableModule, tableId |-> TableId,
         rowId |-> RowIdOf(i - 1), data |-> initialData[i],
         updatedAt |-> now, syncedAt |-> NoTime]]

\* The page with the table is (re)loaded: `rows` starts empty and loadData
\* runs up to the return of getTableRows.
LoadData ==
    /\ ~Settling
    /\ ui = UiIdle
    /\ nEnvOps < MaxEnvOps
    /\ LET savedRows == getTableRows(TableModule, TableId)
       IN  IF Len(savedRows) = 0 /\ Len(initialData) > 0
           THEN /\ ui' = [op |-> "seed", queue |-> newRows, newRows |-> newRows]
                /\ rows' = <<>>
           ELSE /\ ui' = UiIdle
                /\ rows' = savedRows
    /\ nEnvOps' = nEnvOps + 1
    /\ UNCHANGED <<configured, currentHubId, b, remoteLog, obs>>
    /\ UNCHANGED <<dbVars, storeVars>>

\* loadData saves one seeded row; after the last one, setRows(newRows).
SeedPut ==
    /\ ~Settling
    /\ ui.op = "seed"
    /\ tables' = saveTableRow(tables, Head(ui.queue))
    /\ obs' = Wrote(TableKey(Head(ui.queue).moduleKey, Head(ui.queue).tableId,
                             Head(ui.queue).rowId))
    /\ IF Len(ui.queue) = 1
       THEN ui' = UiIdle /\ rows' = ui.newRows
       ELSE ui' = [ui EXCEPT !.queue = Tail(@)] /\ UNCHANGED rows
    /\ UNCHANGED <<todos, now, configured, currentHubId, b, remoteLog,
                   nEnvOps>>
    /\ UNCHANGED dbVars

\* { ...row, data: { ...row.data, [column]: value } }
updatedRow(row, column, value) ==
    [row EXCEPT !.data =
        [c \in (DOMAIN row.data) \cup {column} |->
            IF c = column THEN value ELSE row.data[c]]]

\* handleCellChange: the edit of one cell of a row the component shows.
CellChange(rowId, column, value) ==
    /\ ~Settling
    /\ nEnvOps < MaxEnvOps
    /\ \E i \in 1..Len(rows) :
          /\ rows[i].rowId = rowId
          /\ ~(isInitialRow(rowId) /\ column = Columns[1])
          /\ tables' = saveTableRow(tables, updatedRow(rows[i], column, value))
          /\ rows' = [j \in 1..Len(rows) |->
                        IF rows[j].rowId = rowId
                        THEN updatedRow(rows[i], column, value) ELSE rows[j]]
          /\ obs' = Wrote(TableKey(rows[i].moduleKey, rows[i].tableId, rowId))
    /\ nEnvOps' = nEnvOps + 1
    /\ UNCHANGED <<todos, now, ui, configured, currentHubId, b, remoteLog>>
    /\ UNCHANGED dbVars

\* deleteTodo called by a page: db.delete('todos', id).
UiDeleteTodo(moduleKey, todoId) ==
    /\ ~Settling
    /\ nEnvOps < MaxEnvOps
    /\ ApiDeleteTodo(moduleKey, todoId)
    /\ obs' = Wrote(TodoKey(moduleKey, todoId))
    /\ nEnvOps' = nEnvOps + 1
    /\ UNCHANGED <<rows, ui, configured, currentHubId, b, remoteLog>>
    /\ UNCHANGED dbVars

\* deleteTableRow called by a page: db.delete('tables', id).
UiDeleteTableRow(moduleKey, tableId, rowId) ==
    /\ ~Settling
    /\ nEnvOps < MaxEnvOps
    /\ ApiDeleteTableRow(moduleKey, tableId, rowId)
    /\ obs' = Wrote(TableKey(moduleKey, tableId, rowId))
    /\ nEnvOps' = nEnvOps + 1
    /\ UNCHANGED <<rows, ui, configured, currentHubId, b, remoteLog>>
    /\ UNCHANGED dbVars

\* getModuleTodos: db.getAllFromIndex('todos', 'by-module', moduleKey)
getModuleTodos(moduleKey) ==
    LET hit(k) == todos[k] # NoRec /\ todos[k].moduleKey = moduleKey
        keys == SelectSeq(TodoKeysSorted, hit)
    IN  [i \in 1..Len(keys) |-> todos[keys[i]]]

\* clearCompletedItems(moduleKey), first half: the completed items of the
\* module as getChecklistItems returned them.
ClearCompletedCall(moduleKey) ==
    /\ ~Settling
    /\ ui = UiIdle
    /\ nEnvOps < MaxEnvOps
    /\ LET isCompleted(item) == item.completed
           completedItems == SelectSeq(getModuleTodos(moduleKey), isCompleted)
       IN  ui' = IF completedItems = <<>> THEN UiIdle
                 ELSE [op |-> "clearCompleted", queue |-> completedItems]
    /\ nEnvOps' = nEnvOps + 1
    /\ UNCHANGED <<rows, configured, currentHubId, b, remoteLog, obs>>
    /\ UNCHANGED <<dbVars, storeVars>>

\* One iteration of clearCompletedItems' loop: await deleteTodo(...).
ClearCompletedDelete ==
    /\ ~Settling
    /\ ui.op = "clearCompleted"
    /\ LET item == Head(ui.queue)
       IN  /\ todos' = [todos EXCEPT ![TodoKey(item.moduleKey, item.todoId)] = NoRec]
           /\ obs' = Wrote(TodoKey(item.moduleKey, item.todoId))
    /\ ui' = IF Len(ui.queue) = 1 THEN UiIdle ELSE [ui EXCEPT !.queue = Tail(@)]
    /\ UNCHANGED <<tables, now, rows, configured, currentHubId, b, remoteLog,
                   nEnvOps>>
    /\ UNCHANGED dbVars

(***************************************************************************)
(* Export of a module's data (storage.ts:333-359)                          *)
(***************************************************************************)
\* The paths getModuleData is called with.
ModulePaths == {"/modules/m.mdx", "/modules/m-a.mdx"}

\* The keys of the index 'by-table', [moduleKey, tableId], in IndexedDB's
\* key order (arrays compare element by element).
ByTableKeysSorted ==
    <<<<"m", "a-tb">>, <<"m", "tb">>, <<"m-a", "a-tb">>, <<"m-a", "tb">>>>

\* str.startsWith(prefix)
startsWith(str, prefix) ==
    /\ Len(str) >= Len(prefix)
    /\ SubSeq(str, 1, Len(prefix)) = prefix

\* modulePath.split('/').pop()
lastSegment(modulePath) ==
    LET slashes == {i \in 1..Len(modulePath) : SubSeq(modulePath, i, i) = "/"}
        last == IF slashes = {} THEN 0
                ELSE CHOOSE i \in slashes : \A j \in slashes : j <= i
    IN  SubSeq(modulePath, last + 1, Len(modulePath))

\* str.replace('.mdx', ''): the first occurrence is removed.
withoutMdx(str) ==
    LET ext == ".mdx"
        hits == {i \in 1..(Len(str) - Len(ext) + 1) :
                    SubSeq(str, i, i + Len(ext) - 1) = ext}
    IN  IF hits = {} THEN str
        ELSE LET first == CHOOSE i \in hits : \A j \in hits : i <= j
             IN  SubSeq(str, 1, first - 1) \o SubSeq(str, first + Len(ext), Len(str))

\* modulePath.split('/').pop()?.replace('.mdx', '') || ''
moduleKeyOf(modulePath) == withoutMdx(lastSegment(modulePath))

\* db.getAllFromIndex('tables', 'by-table'): every stored row, in the order
\* of the index, then of the primary key.
RECURSIVE allFromByTable(_)
allFromByTable(indexKeys) ==
    IF indexKeys = <<>> THEN <<>>
    ELSE getTableRows(Head(indexKeys)[1], Head(indexKeys)[2])
            \o allFromByTable(Tail(indexKeys))

\* getModuleData(modulePath).tables: the rows whose id starts with
\* `${moduleKey}-`, grouped by their tableId.
getModuleData(modulePath) ==
    LET moduleKey == moduleKeyOf(modulePath)
        allTableRows == allFromByTable(ByTableKeysSorted)
        ofModule(row) == startsWith(row.id, moduleKey \o "-")
        moduleTableRows == SelectSeq(allTableRows, ofModule)
        tableIds == {moduleTableRows[i].tableId : i \in 1..Len(moduleTableRows)}
    IN  [todos |-> getModuleTodos(moduleKey),
         tables |-> [tb \in tableIds |->
                        LET inTable(row) == row.tableId = tb
                        IN  SelectSeq(moduleTableRows, inTable)]]

(***************************************************************************)
(* The sync engine (sync.ts) and the remote calls it makes (supabase.ts)   *)
(***************************************************************************)
NoHub == "<null>"               \* currentHubId = null
HubIds == {"h1", "h2"}
UserId == "u1"                  \* user.id of the signed-in user
NullNote == "<null>"            \* notes: null in the upsert payload

BIdle ==
    [pc |-> "idle", todoList |-> <<>>, rowList |-> <<>>, i |-> 0,
     todosSynced |-> 0, tablesSynced |-> 0, errors |-> <<>>, cur |-> NoRec,
     hub |-> NoHub]

ObsNone ==
    [cfgAtCall |-> FALSE, hubAtCall |-> NoHub, user |-> "none",
     dirtyAtStart |-> {}, uiWrites |-> {}, hubChanged |-> FALSE,
     pushFailed |-> {}, storeFailed |-> FALSE, marked |-> {}]

InitSync ==
    /\ rows = <<>>
    /\ ui = UiIdle
    /\ configured \in BOOLEAN
    /\ currentHubId \in {NoHub, "h1"}     \* initializeSync: the saved hub, if any
    /\ b = BIdle
    /\ remoteLog = <<>>
    /\ obs = ObsNone
    /\ nEnvOps = 0

\* The hubChanged listener and setCurrentHub: currentHubId = hubId.
HubChanged(hubId) ==
    /\ ~Settling
    /\ nEnvOps < MaxEnvOps
    /\ hubId # currentHubId
    /\ currentHubId' = hubId
    /\ obs' = HubMoved
    /\ nEnvOps' = nEnvOps + 1
    /\ UNCHANGED <<rows, ui, configured, b, remoteLog>>
    /\ UNCHANGED <<dbVars, storeVars>>

\* getUnsyncedTodos without its filter: every stored todo.
getUnsyncedTodosUnfiltered ==
    LET stored(k) == todos[k] # NoRec
        keys == SelectSeq(TodoKeysSorted, stored)
    IN  [i \in 1..Len(keys) |-> todos[keys[i]]]

\* getUnsyncedTodos: db.getAll('todos').filter((todo) => !todo.syncedAt)
getUnsyncedTodos ==
    LET unsynced(k) == todos[k] # NoRec /\ todos[k].syncedAt = NoTime
        keys == SelectSeq(TodoKeysSorted, unsynced)
    IN  [i \in 1..Len(keys) |-> todos[keys[i]]]

\* getUnsyncedTableRows: db.getAll('tables').filter((row) => !row.syncedAt)
getUnsyncedTableRows ==
    LET unsynced(k) == tables[k] # NoRec /\ tables[k].syncedAt = NoTime
        keys == SelectSeq(TableKeysSorted, unsynced)
    IN  [i \in 1..Len(keys) |-> tables[keys[i]]]

\* TodoPayload without the note.
TodoPayloadDropsNotes(hubId, todo) ==
    [hub_id |-> hubId, user_id |-> UserId, module_key |-> todo.moduleKey,
     todo_id |-> todo.todoId, completed |-> todo.completed,
     completed_at |-> IF todo.completed THEN now ELSE NoTime,
     notes |-> NullNote]

\* The object syncTodo upserts into 'todos'.
TodoPayload(hubId, todo) ==
    [hub_id |-> hubId, user_id |-> UserId, module_key |-> todo.moduleKey,
     todo_id |-> todo.todoId, completed |-> todo.completed,
     completed_at |-> IF todo.completed THEN now ELSE NoTime,
     notes |-> IF todo.notes = NoNote \/ todo.notes = "" THEN NullNote
               ELSE todo.notes]

\* The object syncTableRow upserts into 'editable_tables'.
RowPayload(hubId, row) ==
    [hub_id |-> hubId, module_key |-> row.moduleKey, table_id |-> row.tableId,
     row_id |-> row.rowId, data |-> row.data, created_by |-> UserId]

\* Precheck without the `if (!currentHubId)` return.
PrecheckSkipsHub(cfg, hubId) ==
    IF ~cfg THEN "notConfigured" ELSE "ok"

\* syncAll's checks before its first await (sync.ts:103-109).
Precheck(cfg, hubId) ==
    IF ~cfg THEN "notConfigured"
    ELSE IF hubId = NoHub THEN "noHub"
    ELSE "ok"

\* syncAll from its call to its first await or to an early return, with
\* isSupabaseConfigured() = cfg and currentHubId = hubId at that moment.
syncAllStart(cfg, hubId) ==
    CASE Precheck(cfg, hubId) = "notConfigured" -> [BIdle EXCEPT !.pc = "done"]
      [] Precheck(cfg, hubId) = "noHub" ->
            [BIdle EXCEPT !.pc = "done",
                          !.errors = <<[kind |-> "No hub selected", of |-> ""]>>]
      [] OTHER -> [BIdle EXCEPT !.pc = "getUser"]

\* What `obs` records when an invocation of syncAll starts.
ObsAtCall(cfg, hubId) ==
    [ObsNone EXCEPT
        !.cfgAtCall = cfg,
        !.hubAtCall = hubId,
        !.dirtyAtStart =
            {k \in TodoKeySpace : todos[k] # NoRec /\ todos[k].syncedAt = NoTime}
            \cup {k \in TableKeySpace :
                    tables[k] # NoRec /\ tables[k].syncedAt = NoTime}]

\* syncAll is called (by the scheduler or by hand) and runs to its first
\* await or to an early return.
SyncAllCall ==
    /\ b.pc = "idle"
    /\ b' = syncAllStart(configured, currentHubId)
    /\ remoteLog' = <<>>
    /\ obs' = ObsAtCall(configured, currentHubId)
    /\ UNCHANGED <<rows, ui, configured, currentHubId, nEnvOps>>
    /\ UNCHANGED <<dbVars, storeVars>>

\* `const user = await getCurrentUser()` settles: with the user, with null,
\* or by rejecting (getCurrentUser catches nothing, and the await in syncAll
\* stands outside both try blocks).
GetUser(outcome) ==
    /\ b.pc = "getUser"
    /\ b' = CASE outcome = "user" -> [b EXCEPT !.pc = "listTodos"]
              [] outcome = "null" ->
                    [b EXCEPT !.pc = "done",
                              !.errors = <<[kind |-> "Not authenticated", of |-> ""]>>]
              [] OTHER -> [b EXCEPT !.pc = "rejected"]
    /\ obs' = [obs EXCEPT !.user = outcome]
    /\ UNCHANGED <<rows, ui, configured, currentHubId, remoteLog, nEnvOps>>
    /\ UNCHANGED <<dbVars, storeVars>>

\* The header of `for (const todo of unsyncedTodos)`: the next record, for
\* which syncTodo is called with the value currentHubId has now (bb.hub, the
\* argument of the call in flight), or on to the table rows.
NextTodo(bb) ==
    IF bb.i < Len(bb.todoList)
    THEN [bb EXCEPT !.i = @ + 1, !.pc = "pushTodo", !.cur = NoRec,
                    !.hub = currentHubId]
    ELSE [bb EXCEPT !.i = 0, !.pc = "listRows", !.cur = NoRec, !.hub = NoHub]

\* The header of `for (const row of unsyncedRows)`: the next record, for
\* which syncTableRow is called with the value currentHubId has now, or the
\* return of the result.
NextRow(bb) ==
    IF bb.i < Len(bb.rowList)
    THEN [bb EXCEPT !.i = @ + 1, !.pc = "pushRow", !.cur = NoRec,
                    !.hub = currentHubId]
    ELSE [bb EXCEPT !.i = 0, !.pc = "done", !.cur = NoRec, !.hub = NoHub]

\* CatchTodo with the catch around the loop, not inside it: the first failed
\* push ends the todo loop.
CatchTodoAborts(bb, error) ==
    [bb EXCEPT !.errors = Append(@, error), !.i = 0, !.pc = "listRows",
               !.cur = NoRec, !.hub = NoHub]

\* CatchTodo that swallows the error instead of collecting it.
CatchTodoSwallows(bb, error) == NextTodo(bb)

\* The inner `catch (error) { errors.push(error) }` of the todo loop.
CatchTodo(bb, error) == NextTodo([bb EXCEPT !.errors = Append(@, error)])

\* CatchRow that never resumes the loop: the batch hangs on a failed record.
CatchRowHangs(bb, error) ==
    [bb EXCEPT !.errors = Append(@, error), !.pc = "hung"]

\* The inner `catch (error) { errors.push(error) }` of the row loop.
CatchRow(bb, error) == NextRow([bb EXCEPT !.errors = Append(@, error)])

StoreError(id) == [kind |-> "store", of |-> id]
PushError(id) == [kind |-> "push", of |-> id]

\* `await getUnsyncedTodos()` settles; a rejection lands in the outer catch.
ListTodos(ok) ==
    /\ b.pc = "listTodos"
    /\ IF ok
       THEN /\ b' = NextTodo([b EXCEPT !.todoList = getUnsyncedTodos, !.i = 0])
            /\ UNCHANGED obs
       ELSE /\ b' = [b EXCEPT !.errors = Append(@, StoreError("")),
                              !.pc = "listRows"]
            /\ obs' = [obs EXCEPT !.storeFailed = TRUE]
    /\ UNCHANGED <<rows, ui, configured, currentHubId, remoteLog, nEnvOps>>
    /\ UNCHANGED <<dbVars, storeVars>>

\* PushTodo that goes on to markTodoSynced after a failed push too.
PushTodoMarksAnyway(ok) ==
    /\ b.pc = "pushTodo"
    /\ LET todo == b.todoList[b.i]
       IN  IF ok
           THEN /\ remoteLog' = Append(remoteLog, TodoPayload(b.hub, todo))
                /\ b' = [b EXCEPT !.pc = "markTodoGet", !.hub = NoHub]
                /\ UNCHANGED obs
           ELSE /\ b' = [b EXCEPT !.errors = Append(@, PushError(todo.id)),
                                  !.pc = "markTodoGet", !.hub = NoHub]
                /\ obs' = [obs EXCEPT !.pushFailed = @ \cup {todo.id}]
                /\ UNCHANGED remoteLog
    /\ UNCHANGED <<rows, ui, configured, currentHubId, nEnvOps>>
    /\ UNCHANGED <<dbVars, storeVars>>

\* `await syncTodo(currentHubId, ...)` settles: the upsert, under the hub id
\* the call was given, reached the remote store, or syncTodo threw (no user,
\* or the upsert's error).
PushTodo(ok) ==
    /\ b.pc = "pushTodo"
    /\ LET todo == b.todoList[b.i]
       IN  IF ok
           THEN /\ remoteLog' = Append(remoteLog, TodoPayload(b.hub, todo))
                /\ b' = [b EXCEPT !.pc = "markTodoGet", !.hub = NoHub]
                /\ UNCHANGED obs
           ELSE /\ b' = CatchTodo(b, PushError(todo.id))
                /\ obs' = [obs EXCEPT !.pushFailed = @ \cup {todo.id}]
                /\ UNCHANGED remoteLog
    /\ UNCHANGED <<rows, ui, configured, currentHubId, nEnvOps>>
    /\ UNCHANGED <<dbVars, storeVars>>

\* markTodoSynced, first half: `const todo = await getTodo(...)`; an absent
\* record ends markTodoSynced at once.
MarkTodoGet(ok) ==
    /\ b.pc = "markTodoGet"
    /\ LET todo == getTodo(b.todoList[b.i].moduleKey, b.todoList[b.i].todoId)
       IN  IF ok
           THEN /\ b' = IF todo = NoRec
                        THEN NextTodo([b EXCEPT !.todosSynced = @ + 1])
                        ELSE [b EXCEPT !.cur = todo, !.pc = "markTodoPut"]
                /\ UNCHANGED obs
           ELSE /\ b' = CatchTodo(b, StoreError(b.todoList[b.i].id))
                /\ obs' = [obs EXCEPT !.storeFailed = TRUE]
    /\ UNCHANGED <<rows, ui, configured, currentHubId, remoteLog, nEnvOps>>
    /\ UNCHANGED <<dbVars, storeVars>>

\* markTodoSynced that writes the record back without its completedAt.
syncedTodoDropsStamp(todo) == [todo EXCEPT !.syncedAt = now, !.completedAt = NoTime]

\* The record markTodoSynced writes back: { ...todo, syncedAt: now }.
syncedTodo(todo) == [todo EXCEPT !.syncedAt = now]

\* markTodoSynced, second half: `await saveTodo({...todo, syncedAt})`.
MarkTodoPut(ok) ==
    /\ b.pc = "markTodoPut"
    /\ IF ok
       THEN /\ todos' = saveTodo(todos, syncedTodo(b.cur))
            /\ b' = NextTodo([b EXCEPT !.todosSynced = @ + 1])
            /\ obs' = [obs EXCEPT !.marked = @ \cup {b.cur.id}]
       ELSE /\ b' = CatchTodo(b, StoreError(b.cur.id))
            /\ obs' = [obs EXCEPT !.storeFailed = TRUE]
            /\ UNCHANGED todos
    /\ UNCHANGED <<tables, now, rows, ui, configured, currentHubId, remoteLog,
                   nEnvOps>>
    /\ UNCHANGED dbVars

\* `await getUnsyncedTableRows()` settles; a rejection lands in the outer
\* catch and syncAll returns.
ListRows(ok) ==
    /\ b.pc = "listRows"
    /\ IF ok
       THEN /\ b' = NextRow([b EXCEPT !.rowList = getUnsyncedTableRows, !.i = 0])
            /\ UNCHANGED obs
       ELSE /\ b' = [b EXCEPT !.errors = Append(@, StoreError("")), !.pc = "done"]
            /\ obs' = [obs EXCEPT !.storeFailed = TRUE]
    /\ UNCHANGED <<rows, ui, configured, currentHubId, remoteLog, nEnvOps>>
    /\ UNCHANGED <<dbVars, storeVars>>

\* `await syncTableRow(currentHubId, ...)` settles.
PushRow(ok) ==
    /\ b.pc = "pushRow"
    /\ LET row == b.rowList[b.i]
       IN  IF ok
           THEN /\ remoteLog' = Append(remoteLog, RowPayload(b.hub, row))
                /\ b' = [b EXCEPT !.pc = "markRowGet", !.hub = NoHub]
                /\ UNCHANGED obs
           ELSE /\ b' = CatchRow(b, PushError(row.id))
                /\ obs' = [obs EXCEPT !.pushFailed = @ \cup {row.id}]
                /\ UNCHANGED remoteLog
    /\ UNCHANGED <<rows, ui, configured, currentHubId, nEnvOps>>
    /\ UNCHANGED <<dbVars, storeVars>>

\* markTableRowSynced, first half: `const row = await getTableRow(...)`.
MarkRowGet(ok) ==
    /\ b.pc = "markRowGet"
    /\ LET row == getTableRow(b.rowList[b.i].moduleKey, b.rowList[b.i].tableId,
                              b.rowList[b.i].rowId)
       IN  IF ok
           THEN /\ b' = IF row = NoRec
                        THEN NextRow([b EXCEPT !.tablesSynced = @ + 1])
                        ELSE [b EXCEPT !.cur = row, !.pc = "markRowPut"]
                /\ UNCHANGED obs
           ELSE /\ b' = CatchRow(b, StoreError(b.rowList[b.i].id))
                /\ obs' = [obs EXCEPT !.storeFailed = TRUE]
    /\ UNCHANGED <<rows, ui, configured, currentHubId, remoteLog, nEnvOps>>
    /\ UNCHANGED <<dbVars, storeVars>>

\* The record markTableRowSynced passes to saveTableRow.
syncedRow(row) == [row EXCEPT !.syncedAt = now]

\* markTableRowSynced, second half: `await saveTableRow({...row, syncedAt})`.
MarkRowPut(ok) ==
    /\ b.pc = "markRowPut"
    /\ IF ok
       THEN /\ tables' = saveTableRow(tables, syncedRow(b.cur))
            /\ b' = NextRow([b EXCEPT !.tablesSynced = @ + 1])
            /\ obs' = [obs EXCEPT !.marked = @ \cup {b.cur.id}]
       ELSE /\ b' = CatchRow(b, StoreError(b.cur.id))
            /\ obs' = [obs EXCEPT !.storeFailed = TRUE]
            /\ UNCHANGED tables
    /\ UNCHANGED <<todos, now, rows, ui, configured, currentHubId, remoteLog,
                   nEnvOps>>
    /\ UNCHANGED dbVars

\* The caller has taken syncAll's result (or its rejection).
SyncAllReturn ==
    /\ b.pc \in {"done", "rejected"}
    /\ b' = BIdle
    /\ remoteLog' = <<>>
    /\ obs' = ObsNone
    /\ UNCHANGED <<rows, ui, configured, currentHubId, nEnvOps>>
    /\ UNCHANGED <<dbVars, storeVars>>

(***************************************************************************)
(* The storage API called sequentially (storage.ts:138-247): each call     *)
(* runs to completion before the next one starts.  `call` keeps what the   *)
(* caller of the last call could see, `liveRows` what was asked of the     *)
(* store: the row identities saved and not deleted since.                  *)
(***************************************************************************)
CallNone == [op |-> "none", streak |-> 0]

InitApi ==
    /\ call = CallNone
    /\ liveRows = {}
    /\ nCalls = 0

\* saveTodo(todo) runs to completion.
CallSaveTodo(moduleKey, todoId, completed, notes) ==
    /\ nCalls < MaxCalls
    /\ ApiSaveTodo(moduleKey, todoId, completed, notes)
    /\ call' = [op |-> "saveTodo", streak |-> 0]
    /\ nCalls' = nCalls + 1
    /\ UNCHANGED liveRows

\* deleteTodo(moduleKey, todoId) runs to completion.
CallDeleteTodo(moduleKey, todoId) ==
    /\ nCalls < MaxCalls
    /\ ApiDeleteTodo(moduleKey, todoId)
    /\ call' = [op |-> "deleteTodo", streak |-> 0]
    /\ nCalls' = nCalls + 1
    /\ UNCHANGED liveRows

\* The toggles in a row, this one included, that toggleTodo(moduleKey, todoId)
\* has run on this identity since it found no record, nothing but the clock
\* moving in between (0: the run did not start from no record).
Streak(moduleKey, todoId, before) ==
    IF before = NoRec THEN 1
    ELSE IF /\ call.op = "toggleTodo"
            /\ call.moduleKey = moduleKey /\ call.todoId = todoId
            /\ call.streak > 0
         THEN call.streak + 1
         ELSE 0

\* toggleTodo(moduleKey, todoId) runs to completion and returns `completed`.
CallToggleTodo(moduleKey, todoId) ==
    /\ nCalls < MaxCalls
    /\ LET before == getTodo(moduleKey, todoId)
           todo == toggled(moduleKey, todoId, before)
       IN  /\ todos' = saveTodo(todos, todo)
           /\ call' = [op |-> "toggleTodo", moduleKey |-> moduleKey,
                       todoId |-> todoId, before |-> before,
                       ret |-> todo.completed,
                       streak |-> Streak(moduleKey, todoId, before)]
    /\ nCalls' = nCalls + 1
    /\ UNCHANGED <<tables, now, liveRows>>

\* saveTableRow(row) runs to completion.
CallSaveTableRow(moduleKey, tableId, rowId, data) ==
    /\ nCalls < MaxCalls
    /\ ApiSaveTableRow(moduleKey, tableId, rowId, data)
    /\ call' = [op |-> "saveTableRow", streak |-> 0]
    /\ liveRows' = liveRows \cup {<<moduleKey, tableId, rowId>>}
    /\ nCalls' = nCalls + 1

\* deleteTableRow(moduleKey, tableId, rowId) runs to completion.
CallDeleteTableRow(moduleKey, tableId, rowId) ==
    /\ nCalls < MaxCalls
    /\ ApiDeleteTableRow(moduleKey, tableId, rowId)
    /\ call' = [op |-> "deleteTableRow", streak |-> 0]
    /\ liveRows' = liveRows \ {<<moduleKey, tableId, rowId>>}
    /\ nCalls' = nCalls + 1

\* The clock moves between two calls.
CallTick ==
    /\ Tick
    /\ UNCHANGED apiVars

\* Everything but the stores and their sequential callers stands still.
OnlyApi == UNCHANGED <<dbVars, syncVars, schedVars, raceVars>>

NextApi ==
    \/ \E m \in ModuleKeys, t \in TodoIds, c \in BOOLEAN, n \in NoteInputs :
          CallSaveTodo(m, t, c, n) /\ OnlyApi
    \/ \E m \in ModuleKeys, t \in TodoIds : CallDeleteTodo(m, t) /\ OnlyApi
    \/ \E m \in ModuleKeys, t \in TodoIds : CallToggleTodo(m, t) /\ OnlyApi
    \/ \E m \in ModuleKeys, tb \in TableIds, r \in RowIds, d \in DataInputs :
          CallSaveTableRow(m, tb, r, d) /\ OnlyApi
    \/ \E m \in ModuleKeys, tb \in TableIds, r \in RowIds :
          CallDeleteTableRow(m, tb, r) /\ OnlyApi
    \/ CallTick /\ OnlyApi

(***************************************************************************)
(* The checklist calls and the mark-synced calls made one after the other  *)
(* (storage.ts:164-177, 226-234, 299-324, 427-442).                        *)
(***************************************************************************)
\* batchUpdateChecklistItems(updates) on the store `st`: one saveTodo per
\* update, in order.
RECURSIVE batchUpdateChecklistItems(_, _)
batchUpdateChecklistItems(st, updates) ==
    IF updates = <<>> THEN st
    ELSE LET update == Head(updates)
         IN  batchUpdateChecklistItems(
                 saveTodo(st,
                     [moduleKey |-> update.moduleKey, todoId |-> update.todoId,
                      completed |-> update.completed,
                      completedAt |-> IF update.completed THEN now ELSE NoTime,
                      notes |-> NoNote, syncedAt |-> NoTime]),
                 Tail(updates))

\* batchUpdateChecklistItems(updates) runs to completion.
CallBatchUpdate(updates) ==
    /\ nCalls < MaxCalls
    /\ todos' = batchUpdateChecklistItems(todos, updates)
    /\ call' = [op |-> "batchUpdate", streak |-> 0]
    /\ nCalls' = nCalls + 1
    /\ UNCHANGED <<tables, now, liveRows>>

\* markTodoSynced(moduleKey, todoId) runs to completion.
CallMarkTodoSynced(moduleKey, todoId) ==
    /\ nCalls < MaxCalls
    /\ LET todo == getTodo(moduleKey, todoId)
       IN  /\ todos' = IF todo = NoRec THEN todos
                       ELSE saveTodo(todos, syncedTodo(todo))
           /\ call' = [op |-> "markTodoSynced", before |-> todo, streak |-> 0]
    /\ nCalls' = nCalls + 1
    /\ UNCHANGED <<tables, now, liveRows>>

\* markTableRowSynced(moduleKey, tableId, rowId) runs to completion.
CallMarkTableRowSynced(moduleKey, tableId, rowId) ==
    /\ nCalls < MaxCalls
    /\ LET row == getTableRow(moduleKey, tableId, rowId)
       IN  /\ tables' = IF row = NoRec THEN tables
                        ELSE saveTableRow(tables, syncedRow(row))
           /\ call' = [op |-> "markTableRowSynced", before |-> row, streak |-> 0]
    /\ nCalls' = nCalls + 1
    /\ UNCHANGED <<todos, now, liveRows>>

NextMark ==
    \/ \E m \in ModuleKeys, t \in TodoIds : CallToggleTodo(m, t) /\ OnlyApi
    \/ \E updates \in UpdateLists : CallBatchUpdate(updates) /\ OnlyApi
    \/ \E m \in ModuleKeys, t \in TodoIds : CallMarkTodoSynced(m, t) /\ OnlyApi
    \/ \E m \in ModuleKeys, tb \in TableIds, r \in RowIds, d \in DataInputs :
          CallSaveTableRow(m, tb, r, d) /\ OnlyApi
    \/ \E m \in ModuleKeys, tb \in TableIds, r \in RowIds :
          CallMarkTableRowSynced(m, tb, r) /\ OnlyApi
    \/ CallTick /\ OnlyApi

(***************************************************************************)
(* The polling scheduler (sync.ts:48, 56-78, 174-220).  Each handler runs  *)
(* to completion; what it does to the timer state is a function of the     *)
(* record s = [syncInterval, timers, nTimers, calls], where `calls` counts *)
(* the syncAll() invocations the handler has made.                         *)
(*                                                                         *)
(* The model follows one invocation of syncAll step by step (`b`).  An     *)
(* invocation made while that one is in flight is counted in `hist.calls`  *)
(* and not followed.                                                       *)
(***************************************************************************)
NoTimer == 0                    \* syncInterval = null

\* `hist`: the scheduler's last step (op), the syncAll() invocations it made
\* (calls), and where the invocation being followed stood when stopAutoSync
\* last ran during it: "early" before it had listed anything, "late" after,
\* "idle" if stopAutoSync did not run during it.
HistNone == [op |-> "none", calls |-> 0, stopAt |-> "idle"]

InitSched ==
    /\ syncInterval = NoTimer
    /\ timers = {}
    /\ nTimers = 0
    /\ online = TRUE
    /\ hist = HistNone

\* The handler's view of the timer state when it starts.
Sched == [syncInterval |-> syncInterval, timers |-> timers,
          nTimers |-> nTimers, calls |-> 0]

\* stopAutoSync: if (syncInterval) { clearInterval(syncInterval); syncInterval = null }
stopAutoSync(s) ==
    IF s.syncInterval # NoTimer
    THEN [s EXCEPT !.timers = @ \ {s.syncInterval}, !.syncInterval = NoTimer]
    ELSE s

\* startAutoSync that does not stop the timer it replaces.
startAutoSyncKeepsTimer(s) ==
    [s EXCEPT !.calls = @ + 1, !.syncInterval = s.nTimers + 1,
              !.timers = @ \cup {s.nTimers + 1}, !.nTimers = @ + 1]

\* startAutoSync without its initial sync.
startAutoSyncNoInitial(s) ==
    LET t == stopAutoSync(s)
    IN  [t EXCEPT !.syncInterval = t.nTimers + 1,
                  !.timers = @ \cup {t.nTimers + 1}, !.nTimers = @ + 1]

\* startAutoSync: stop a running timer, syncAll(), then
\* syncInterval = window.setInterval(...), a timer id never handed out before.
startAutoSync(s) ==
    LET t == stopAutoSync(s)
    IN  [t EXCEPT !.calls = @ + 1, !.syncInterval = t.nTimers + 1,
                  !.timers = @ \cup {t.nTimers + 1}, !.nTimers = @ + 1]

\* The hubChanged listener after `currentHubId = hubId`:
\* if (hubId && isAutoSyncRunning()) { stopAutoSync(); startAutoSync() }
hubChangedListener(s, hubId) ==
    IF hubId # NoHub /\ s.syncInterval # NoTimer
    THEN startAutoSync(stopAutoSync(s))
    ELSE s

\* The 'online' listener: if (isSupabaseConfigured() && currentHubId) syncAll()
onlineListener(s, cfg, hubId) ==
    IF cfg /\ hubId # NoHub THEN [s EXCEPT !.calls = @ + 1] ELSE s

\* An interval callback that calls syncAll() whatever the device reports.
intervalCallbackUnguarded(s, onLine, cfg) == [s EXCEPT !.calls = @ + 1]

\* An interval callback that does nothing.
intervalCallbackIdle(s, onLine, cfg) == s

\* The interval callback: if (navigator.onLine && isSupabaseConfigured()) syncAll()
intervalCallback(s, onLine, cfg) ==
    IF onLine /\ cfg THEN [s EXCEPT !.calls = @ + 1] ELSE s

\* Where the invocation being followed stands.
Stage ==
    IF b.pc = "idle" THEN "idle"
    ELSE IF b.pc \in {"getUser", "listTodos"} THEN "early"
    ELSE "late"

\* A handler that ends with timer state s and saw currentHubId = hubId takes
\* effect: the timer state, and the invocation of syncAll it made, followed
\* if no other one is being followed.
Handled(s, hubId, op) ==
    /\ syncInterval' = s.syncInterval
    /\ timers' = s.timers
    /\ nTimers' = s.nTimers
    /\ IF s.calls > 0 /\ b.pc = "idle"
       THEN /\ b' = syncAllStart(configured, hubId)
            /\ remoteLog' = <<>>
            /\ obs' = ObsAtCall(configured, hubId)
            /\ hist' = [op |-> op, calls |-> s.calls, stopAt |-> "idle"]
       ELSE /\ UNCHANGED <<b, remoteLog>>
            /\ obs' = IF hubId # currentHubId THEN HubMoved ELSE obs
            /\ hist' = [op |-> op, calls |-> s.calls,
                        stopAt |-> IF op = "stop" THEN Stage ELSE hist.stopAt]

\* The application calls startAutoSync().
StartAutoSync ==
    /\ ~Settling
    /\ nTimers < MaxTimers
    /\ Handled(startAutoSync(Sched), currentHubId, "start")
    /\ UNCHANGED <<rows, ui, configured, currentHubId, nEnvOps, online>>
    /\ UNCHANGED <<dbVars, storeVars, apiVars, raceVars>>

\* stopAutoSync that also abandons the batch in flight.
StopAutoSyncCancelsBatch ==
    /\ ~Settling
    /\ syncInterval' = NoTimer
    /\ timers' = {}
    /\ b' = IF b.pc = "idle" THEN b ELSE [b EXCEPT !.pc = "done"]
    /\ hist' = [op |-> "stop", calls |-> 0, stopAt |-> Stage]
    /\ UNCHANGED <<nTimers, remoteLog, obs>>
    /\ UNCHANGED <<rows, ui, configured, currentHubId, nEnvOps, online>>
    /\ UNCHANGED <<dbVars, storeVars, apiVars, raceVars>>

\* The application calls stopAutoSync().
StopAutoSync ==
    /\ ~Settling
    /\ Handled(stopAutoSync(Sched), currentHubId, "stop")
    /\ UNCHANGED <<rows, ui, configured, currentHubId, nEnvOps, online>>
    /\ UNCHANGED <<dbVars, storeVars, apiVars, raceVars>>

\* A hubChanged event is dispatched (setActiveHub with a hub id,
\* clearActiveHub with null) and the listener of initializeSync runs.
HubChangedEvent(hubId) ==
    /\ ~Settling
    /\ hubId # NoHub /\ syncInterval # NoTimer => nTimers < MaxTimers
    /\ currentHubId' = hubId
    /\ Handled(hubChangedListener(Sched, hubId), hubId,
               IF hubId = NoHub THEN "hubCleared" ELSE "hub")
    /\ UNCHANGED <<rows, ui, configured, nEnvOps, online>>
    /\ UNCHANGED <<dbVars, storeVars, apiVars, raceVars>>

\* The device goes offline: navigator.onLine turns false.
GoOffline ==
    /\ ~Settling
    /\ online
    /\ online' = FALSE
    /\ Handled(Sched, currentHubId, "offline")
    /\ UNCHANGED <<rows, ui, configured, currentHubId, nEnvOps>>
    /\ UNCHANGED <<dbVars, storeVars, apiVars, raceVars>>

\* The device comes back online: the 'online' event fires.
GoOnline ==
    /\ ~Settling
    /\ ~online
    /\ online' = TRUE
    /\ Handled(onlineListener(Sched, configured, currentHubId), currentHubId,
               "online")
    /\ UNCHANGED <<rows, ui, configured, currentHubId, nEnvOps>>
    /\ UNCHANGED <<dbVars, storeVars, apiVars, raceVars>>

\* An active interval timer fires and its callback runs.
TimerTick(t) ==
    /\ ~Settling
    /\ t \in timers
    /\ Handled(intervalCallback(Sched, online, configured), currentHubId, "tick")
    /\ UNCHANGED <<rows, ui, configured, currentHubId, nEnvOps, online>>
    /\ UNCHANGED <<dbVars, storeVars, apiVars, raceVars>>

\* The scheduler and the sequential callers of the storage API stand still.
OnlySync == UNCHANGED <<schedVars, apiVars, raceVars>>

NextSync ==
    \/ \E id \in UiTodos, c \in BOOLEAN : UiSaveTodo(id[1], id[2], c, "n") /\ OnlySync
    \/ \E id \in UiTodos : ToggleRead(id[1], id[2]) /\ OnlySync
    \/ TogglePut /\ OnlySync
    \/ \E updates \in UpdateLists : BatchUpdateCall(updates) /\ OnlySync
    \/ BatchUpdatePut /\ OnlySync
    \/ LoadData /\ OnlySync
    \/ SeedPut /\ OnlySync
    \/ \E r \in RowIds, col \in {Columns[1], Columns[2]}, v \in CellValues :
          CellChange(r, col, v) /\ OnlySync
    \/ \E h \in HubIds \cup {NoHub} : HubChanged(h) /\ OnlySync
    \/ SyncAllCall /\ OnlySync
    \/ \E outcome \in {"user", "null", "throw"} : GetUser(outcome) /\ OnlySync
    \/ \E ok \in BOOLEAN : ListTodos(ok) /\ OnlySync
    \/ \E ok \in BOOLEAN : PushTodo(ok) /\ OnlySync
    \/ \E ok \in BOOLEAN : MarkTodoGet(ok) /\ OnlySync
    \/ \E ok \in BOOLEAN : MarkTodoPut(ok) /\ OnlySync
    \/ \E ok \in BOOLEAN : ListRows(ok) /\ OnlySync
    \/ \E ok \in BOOLEAN : PushRow(ok) /\ OnlySync
    \/ \E ok \in BOOLEAN : MarkRowGet(ok) /\ OnlySync
    \/ \E ok \in BOOLEAN : MarkRowPut(ok) /\ OnlySync
    \/ SyncAllReturn /\ OnlySync

\* The storage API's sequential callers stand still.
OnlySched == UNCHANGED apiVars

NextSched ==
    \/ StartAutoSync
    \/ StopAutoSync
    \/ \E h \in {"h1", NoHub} : HubChangedEvent(h)
    \/ GoOffline
    \/ GoOnline
    \/ \E t \in 1..MaxTimers : TimerTick(t)
    \/ UiSaveTodo("m", "t", TRUE, "n") /\ OnlySync
    \/ LoadData /\ OnlySync
    \/ SeedPut /\ OnlySync
    \/ \E outcome \in {"user", "null", "throw"} : GetUser(outcome) /\ OnlySync
    \/ \E ok \in BOOLEAN : ListTodos(ok) /\ OnlySync
    \/ \E ok \in BOOLEAN : PushTodo(ok) /\ OnlySync
    \/ \E ok \in BOOLEAN : MarkTodoGet(ok) /\ OnlySync
    \/ \E ok \in BOOLEAN : MarkTodoPut(ok) /\ OnlySync
    \/ \E ok \in BOOLEAN : ListRows(ok) /\ OnlySync
    \/ \E ok \in BOOLEAN : PushRow(ok) /\ OnlySync
    \/ \E ok \in BOOLEAN : MarkRowGet(ok) /\ OnlySync
    \/ \E ok \in BOOLEAN : MarkRowPut(ok) /\ OnlySync
    \/ SyncAllReturn /\ OnlySync

\* The sync engine running against pages that save and delete records.
NextDelete ==
    \/ \E id \in UiTodos, c \in BOOLEAN :
          UiSaveTodo(id[1], id[2], c, "n") /\ OnlySync
    \/ LoadData /\ OnlySync
    \/ SeedPut /\ OnlySync
    \/ \E id \in UiTodos : UiDeleteTodo(id[1], id[2]) /\ OnlySync
    \/ UiDeleteTableRow(TableModule, TableId, "row-0") /\ OnlySync
    \/ ClearCompletedCall("m") /\ OnlySync
    \/ ClearCompletedDelete /\ OnlySync
    \/ SyncAllCall /\ OnlySync
    \/ \E outcome \in {"user", "null", "throw"} : GetUser(outcome) /\ OnlySync
    \/ \E ok \in BOOLEAN : ListTodos(ok) /\ OnlySync
    \/ \E ok \in BOOLEAN : PushTodo(ok) /\ OnlySync
    \/ \E ok \in BOOLEAN : MarkTodoGet(ok) /\ OnlySync
    \/ \E ok \in BOOLEAN : MarkTodoPut(ok) /\ OnlySync
    \/ \E ok \in BOOLEAN : ListRows(ok) /\ OnlySync
    \/ \E ok \in BOOLEAN : PushRow(ok) /\ OnlySync
    \/ \E ok \in BOOLEAN : MarkRowGet(ok) /\ OnlySync
    \/ \E ok \in BOOLEAN : MarkRowPut(ok) /\ OnlySync
    \/ SyncAllReturn /\ OnlySync

\* Auto-sync on a device that stays online, with the user signed in, the
\* local store working and pushes that may fail; the pages write a bounded
\* number of times.
NextLive ==
    \/ StartAutoSync
    \/ \E t \in 1..MaxTimers : TimerTick(t)
    \/ \E id \in UiTodos : UiSaveTodo(id[1], id[2], TRUE, "n") /\ OnlySync
    \/ LoadData /\ OnlySync
    \/ SeedPut /\ OnlySync
    \/ GetUser("user") /\ OnlySync
    \/ ListTodos(TRUE) /\ OnlySync
    \/ \E ok \in BOOLEAN : PushTodo(ok) /\ OnlySync
    \/ MarkTodoGet(TRUE) /\ OnlySync
    \/ MarkTodoPut(TRUE) /\ OnlySync
    \/ ListRows(TRUE) /\ OnlySync
    \/ \E ok \in BOOLEAN : PushRow(ok) /\ OnlySync
    \/ MarkRowGet(TRUE) /\ OnlySync
    \/ MarkRowPut(TRUE) /\ OnlySync
    \/ SyncAllReturn /\ OnlySync

\* An active interval timer keeps firing, every promise the batch awaits
\* settles, the caller takes the result, and a push that is retried again
\* and again eventually succeeds.
FairLive ==
    /\ WF_vars(\E t \in 1..MaxTimers : TimerTick(t))
    /\ WF_vars(GetUser("user") /\ OnlySync)
    /\ WF_vars(ListTodos(TRUE) /\ OnlySync)
    /\ WF_vars(\E ok \in BOOLEAN : PushTodo(ok) /\ OnlySync)
    /\ SF_vars(PushTodo(TRUE) /\ OnlySync)
    /\ WF_vars(MarkTodoGet(TRUE) /\ OnlySync)
    /\ WF_vars(MarkTodoPut(TRUE) /\ OnlySync)
    /\ WF_vars(ListRows(TRUE) /\ OnlySync)
    /\ WF_vars(\E ok \in BOOLEAN : PushRow(ok) /\ OnlySync)
    /\ SF_vars(PushRow(TRUE) /\ OnlySync)
    /\ WF_vars(MarkRowGet(TRUE) /\ OnlySync)
    /\ WF_vars(MarkRowPut(TRUE) /\ OnlySync)
    /\ WF_vars(SyncAllReturn /\ OnlySync)

\* Auto-sync started and stopped by the application while the pages write
\* and every call a batch awaits may fail.
NextSettle ==
    \/ StartAutoSync
    \/ StopAutoSync
    \/ \E t \in 1..MaxTimers : TimerTick(t)
    \/ UiSaveTodo("m", "t", TRUE, "n") /\ OnlySync
    \/ LoadData /\ OnlySync
    \/ SeedPut /\ OnlySync
    \/ \E outcome \in {"user", "null", "throw"} : GetUser(outcome) /\ OnlySync
    \/ \E ok \in BOOLEAN : ListTodos(ok) /\ OnlySync
    \/ \E ok \in BOOLEAN : PushTodo(ok) /\ OnlySync
    \/ \E ok \in BOOLEAN : MarkTodoGet(ok) /\ OnlySync
    \/ \E ok \in BOOLEAN : MarkTodoPut(ok) /\ OnlySync
    \/ \E ok \in BOOLEAN : ListRows(ok) /\ OnlySync
    \/ \E ok \in BOOLEAN : PushRow(ok) /\ OnlySync
    \/ \E ok \in BOOLEAN : MarkRowGet(ok) /\ OnlySync
    \/ \E ok \in BOOLEAN : MarkRowPut(ok) /\ OnlySync
    \/ SyncAllReturn /\ OnlySync

\* Every call a batch awaits settles, one way or the other.
FairSettle ==
    /\ WF_vars(\E outcome \in {"user", "null", "throw"} : GetUser(outcome) /\ OnlySync)
    /\ WF_vars(\E ok \in BOOLEAN : ListTodos(ok) /\ OnlySync)
    /\ WF_vars(\E ok \in BOOLEAN : PushTodo(ok) /\ OnlySync)
    /\ WF_vars(\E ok \in BOOLEAN : MarkTodoGet(ok) /\ OnlySync)
    /\ WF_vars(\E ok \in BOOLEAN : MarkTodoPut(ok) /\ OnlySync)
    /\ WF_vars(\E ok \in BOOLEAN : ListRows(ok) /\ OnlySync)
    /\ WF_vars(\E ok \in BOOLEAN : PushRow(ok) /\ OnlySync)
    /\ WF_vars(\E ok \in BOOLEAN : MarkRowGet(ok) /\ OnlySync)
    /\ WF_vars(\E ok \in BOOLEAN : MarkRowPut(ok) /\ OnlySync)

(***************************************************************************)
(* A second invocation of syncAll (sync.ts:98-169) made while one is in    *)
(* flight: syncAll keeps no "in progress" flag, so a timer tick, an online *)
(* event or a call by hand starts it whatever the first one is doing.  Its *)
(* steps are those of the first invocation, on its own locals `b2`.        *)
(***************************************************************************)
\* Everything but the stores and the second invocation stands still.
OnlySecond ==
    UNCHANGED <<dbVars, now, syncVars, schedVars, apiVars, toggler, nToggled>>

\* syncAll is called while another invocation is in flight.
SecondSyncAllCall ==
    /\ b.pc # "idle"
    /\ ~Settling
    /\ b2.pc = "idle"
    /\ b2' = syncAllStart(configured, currentHubId)
    /\ remoteLog2' = <<>>
    /\ UNCHANGED <<todos, tables>>

\* `const user = await getCurrentUser()` settles.
SecondGetUser(outcome) ==
    /\ b2.pc = "getUser"
    /\ b2' = CASE outcome = "user" -> [b2 EXCEPT !.pc = "listTodos"]
               [] outcome = "null" ->
                     [b2 EXCEPT !.pc = "done",
                                !.errors = <<[kind |-> "Not authenticated", of |-> ""]>>]
               [] OTHER -> [b2 EXCEPT !.pc = "rejected"]
    /\ UNCHANGED <<todos, tables, remoteLog2>>

\* `await getUnsyncedTodos()` settles.
SecondListTodos(ok) ==
    /\ b2.pc = "listTodos"
    /\ b2' = IF ok
             THEN NextTodo([b2 EXCEPT !.todoList = getUnsyncedTodos, !.i = 0])
             ELSE [b2 EXCEPT !.errors = Append(@, StoreError("")), !.pc = "listRows"]
    /\ UNCHANGED <<todos, tables, remoteLog2>>

\* `await syncTodo(currentHubId, ...)` settles.
SecondPushTodo(ok) ==
    /\ b2.pc = "pushTodo"
    /\ LET todo == b2.todoList[b2.i]
       IN  IF ok
           THEN /\ remoteLog2' = Append(remoteLog2, TodoPayload(b2.hub, todo))
                /\ b2' = [b2 EXCEPT !.pc = "markTodoGet", !.hub = NoHub]
           ELSE /\ b2' = CatchTodo(b2, PushError(todo.id))
                /\ UNCHANGED remoteLog2
    /\ UNCHANGED <<todos, tables>>

\* markTodoSynced, first half.
SecondMarkTodoGet(ok) ==
    /\ b2.pc = "markTodoGet"
    /\ LET todo == getTodo(b2.todoList[b2.i].moduleKey, b2.todoList[b2.i].todoId)
       IN  b2' = IF ~ok THEN CatchTodo(b2, StoreError(b2.todoList[b2.i].id))
                 ELSE IF todo = NoRec
                      THEN NextTodo([b2 EXCEPT !.todosSynced = @ + 1])
                      ELSE [b2 EXCEPT !.cur = todo, !.pc = "markTodoPut"]
    /\ UNCHANGED <<todos, tables, remoteLog2>>

\* markTodoSynced, second half.
SecondMarkTodoPut(ok) ==
    /\ b2.pc = "markTodoPut"
    /\ IF ok
       THEN /\ todos' = saveTodo(todos, syncedTodo(b2.cur))
            /\ b2' = NextTodo([b2 EXCEPT !.todosSynced = @ + 1])
       ELSE /\ b2' = CatchTodo(b2, StoreError(b2.cur.id))
            /\ UNCHANGED todos
    /\ UNCHANGED <<tables, remoteLog2>>

\* `await getUnsyncedTableRows()` settles.
SecondListRows(ok) ==
    /\ b2.pc = "listRows"
    /\ b2' = IF ok
             THEN NextRow([b2 EXCEPT !.rowList = getUnsyncedTableRows, !.i = 0])
             ELSE [b2 EXCEPT !.errors = Append(@, StoreError("")), !.pc = "done"]
    /\ UNCHANGED <<todos, tables, remoteLog2>>

\* `await syncTableRow(currentHubId, ...)` settles.
SecondPushRow(ok) ==
    /\ b2.pc = "pushRow"
    /\ LET row == b2.rowList[b2.i]
       IN  IF ok
           THEN /\ remoteLog2' = Append(remoteLog2, RowPayload(b2.hub, row))
                /\ b2' = [b2 EXCEPT !.pc = "markRowGet", !.hub = NoHub]
           ELSE /\ b2' = CatchRow(b2, PushError(row.id))
                /\ UNCHANGED remoteLog2
    /\ UNCHANGED <<todos, tables>>

\* markTableRowSynced, first half.
SecondMarkRowGet(ok) ==
    /\ b2.pc = "markRowGet"
    /\ LET row == getTableRow(b2.rowList[b2.i].moduleKey, b2.rowList[b2.i].tableId,
                              b2.rowList[b2.i].rowId)
       IN  b2' = IF ~ok THEN CatchRow(b2, StoreError(b2.rowList[b2.i].id))
                 ELSE IF row = NoRec
                      THEN NextRow([b2 EXCEPT !.tablesSynced = @ + 1])
                      ELSE [b2 EXCEPT !.cur = row, !.pc = "markRowPut"]
    /\ UNCHANGED <<todos, tables, remoteLog2>>

\* markTableRowSynced, second half.
SecondMarkRowPut(ok) ==
    /\ b2.pc = "markRowPut"
    /\ IF ok
       THEN /\ tables' = saveTableRow(tables, syncedRow(b2.cur))
            /\ b2' = NextRow([b2 EXCEPT !.tablesSynced = @ + 1])
       ELSE /\ b2' = CatchRow(b2, StoreError(b2.cur.id))
            /\ UNCHANGED tables
    /\ UNCHANGED <<todos, remoteLog2>>

\* The caller has taken the second invocation's result (or its rejection).
SecondSyncAllReturn ==
    /\ b2.pc \in {"done", "rejected"}
    /\ b2' = BIdle
    /\ remoteLog2' = <<>>
    /\ UNCHANGED <<todos, tables>>

\* Two invocations of syncAll against pages that write.
NextOverlap ==
    \/ UiSaveTodo("m", "t", TRUE, "n") /\ OnlySync
    \/ LoadData /\ OnlySync
    \/ SeedPut /\ OnlySync
    \/ SyncAllCall /\ OnlySync
    \/ \E outcome \in {"user", "null", "throw"} : GetUser(outcome) /\ OnlySync
    \/ \E ok \in BOOLEAN : ListTodos(ok) /\ OnlySync
    \/ \E ok \in BOOLEAN : PushTodo(ok) /\ OnlySync
    \/ \E ok \in BOOLEAN : MarkTodoGet(ok) /\ OnlySync
    \/ \E ok \in BOOLEAN : MarkTodoPut(ok) /\ OnlySync
    \/ \E ok \in BOOLEAN : ListRows(ok) /\ OnlySync
    \/ \E ok \in BOOLEAN : PushRow(ok) /\ OnlySync
    \/ \E ok \in BOOLEAN : MarkRowGet(ok) /\ OnlySync
    \/ \E ok \in BOOLEAN : MarkRowPut(ok) /\ OnlySync
    \/ SyncAllReturn /\ OnlySync
    \/ SecondSyncAllCall /\ OnlySecond
    \/ \E outcome \in {"user", "null", "throw"} : SecondGetUser(outcome) /\ OnlySecond
    \/ \E ok \in BOOLEAN : SecondListTodos(ok) /\ OnlySecond
    \/ \E ok \in BOOLEAN : SecondPushTodo(ok) /\ OnlySecond
    \/ \E ok \in BOOLEAN : SecondMarkTodoGet(ok) /\ OnlySecond
    \/ \E ok \in BOOLEAN : SecondMarkTodoPut(ok) /\ OnlySecond
    \/ \E ok \in BOOLEAN : SecondListRows(ok) /\ OnlySecond
    \/ \E ok \in BOOLEAN : SecondPushRow(ok) /\ OnlySecond
    \/ \E ok \in BOOLEAN : SecondMarkRowGet(ok) /\ OnlySecond
    \/ \E ok \in BOOLEAN : SecondMarkRowPut(ok) /\ OnlySecond
    \/ SecondSyncAllReturn /\ OnlySecond

(***************************************************************************)
(* Overlapping clicks on one checklist row (ChecklistRow.tsx:52-65): each  *)
(* click runs handleToggle, which awaits toggleTodo (storage.ts:164-177);  *)
(* nothing keeps a second click from starting while the first is pending.  *)
(***************************************************************************)
Togglers == 1..NumTogglers
ToggledModule == "m"            \* the row's moduleKey
ToggledId == "t"                \* the row's id

TogglerIdle == [pc |-> "idle", todo |-> NoRec]

\* handleToggle calls that have started.
TogglesStarted ==
    nToggled + Cardinality({p \in Togglers : toggler[p].pc # "idle"})

\* handleToggle is called; toggleTodo runs to `await getTodo(moduleKey, todoId)`.
HandleToggleRead(p) ==
    /\ toggler[p].pc = "idle"
    /\ TogglesStarted < MaxToggles
    /\ toggler' = [toggler EXCEPT ![p] =
                      [pc |-> "read", todo |-> getTodo(ToggledModule, ToggledId)]]
    /\ UNCHANGED <<todos, tables, now, nToggled>>

\* toggleTodo, second half: `await saveTodo({...})`, and the call completes.
HandleTogglePut(p) ==
    /\ toggler[p].pc = "read"
    /\ todos' = saveTodo(todos, toggled(ToggledModule, ToggledId, toggler[p].todo))
    /\ toggler' = [toggler EXCEPT ![p] = TogglerIdle]
    /\ nToggled' = nToggled + 1
    /\ UNCHANGED <<tables, now>>

\* The clock moves between two steps of the handlers.
ToggleTick ==
    /\ Tick
    /\ UNCHANGED <<toggler, nToggled>>

\* Everything but the todo store and the handlers stands still.
OnlyToggle == UNCHANGED <<dbVars, syncVars, schedVars, apiVars, b2, remoteLog2>>

NextToggle ==
    \/ \E p \in Togglers : HandleToggleRead(p) /\ OnlyToggle
    \/ \E p \in Togglers : HandleTogglePut(p) /\ OnlyToggle
    \/ ToggleTick /\ OnlyToggle

InitRace ==
    /\ b2 = BIdle
    /\ remoteLog2 = <<>>
    /\ toggler = [p \in Togglers |-> TogglerIdle]
    /\ nToggled = 0

(***************************************************************************)
(* Specifications                                                          *)
(***************************************************************************)
Init == InitDB /\ InitStore /\ InitSync /\ InitSched /\ InitApi /\ InitRace

\* The sync engine running against the UI's writes.  The clock does not
\* advance within a run: no step of the engine or of the UI compares two
\* timestamps, they only test syncedAt for presence.
Spec == Init /\ [][NextSync]_vars

\* Concurrent first accesses of the connection singleton.
SpecDB == Init /\ [][NextDB]_vars

\* The storage API under arbitrary identities.
SpecStore == Init /\ [][NextStore]_vars

\* The storage API called sequentially, with what its callers see.
SpecApi == Init /\ [][NextApi]_vars

\* The checklist and mark-synced calls made one after the other.
SpecMark == Init /\ [][NextMark]_vars

\* Overlapping clicks on one checklist row.
SpecToggle == Init /\ [][NextToggle]_vars

\* Auto-sync with the remote configured and hub "h1" selected.
InitLive == Init /\ configured = TRUE /\ currentHubId = "h1"

SpecLive == InitLive /\ [][NextLive]_vars /\ FairLive

\* Auto-sync, remote configured and hub "h1" selected, with calls that fail.
SpecSettle == InitLive /\ [][NextSettle]_vars /\ FairSettle

\* Two overlapping invocations of syncAll, remote configured, hub selected.
SpecOverlap == InitLive /\ [][NextOverlap]_vars

\* The sync engine running against saves and deletes.
SpecDelete == Init /\ [][NextDelete]_vars

\* The scheduler driving the sync engine while the UI writes, from a page
\* load at which initializeSync finds no saved hub.
InitNoHub == Init /\ currentHubId = NoHub

SpecSched == InitNoHub /\ [][NextSched]_vars

(***************************************************************************)
(* Properties                                                              *)
(***************************************************************************)
\* C1: callers that start before the first open completes open the database
\* once and all resolve to the same connection: never two connections, never
\* two resolved callers holding different instances.
C1_SingleFlightOpen ==
    /\ nConns <= 1
    /\ \A c1, c2 \in Callers :
          (caller[c1].pc = "done" /\ caller[c2].pc = "done")
              => caller[c1].conn = caller[c2].conn

\* C5: two distinct identities never share a key: whatever has been saved,
\* get with one identity returns either nothing or the record saved under
\* exactly that identity, for todos and for table rows.
C5_IdentityOwnsItsKey ==
    /\ \A m \in ModuleKeys, t \in TodoIds :
          getTodo(m, t) # NoRec =>
              (getTodo(m, t).moduleKey = m /\ getTodo(m, t).todoId = t)
    /\ \A m \in ModuleKeys, tb \in TableIds, r \in RowIds :
          getTableRow(m, tb, r) # NoRec =>
              /\ getTableRow(m, tb, r).moduleKey = m
              /\ getTableRow(m, tb, r).tableId = tb
              /\ getTableRow(m, tb, r).rowId = r

\* A stored record by its key: the two stores' keys are disjoint here.
Rec(id) == IF id \in TodoKeySpace THEN todos[id] ELSE tables[id]

\* The fields of a record that belong to the UI: completed and notes of a
\* todo, data of a table row (NoRec for no record).
Content(st, k) ==
    IF st[k] = NoRec THEN NoRec
    ELSE IF "data" \in DOMAIN st[k] THEN [data |-> st[k].data]
    ELSE [completed |-> st[k].completed, notes |-> st[k].notes]

\* The upsert `p` carries the stored record `r`'s identity and content.
Carries(p, r) ==
    IF "data" \in DOMAIN r
    THEN /\ "row_id" \in DOMAIN p
         /\ p.module_key = r.moduleKey /\ p.table_id = r.tableId
         /\ p.row_id = r.rowId /\ p.data = r.data
    ELSE /\ "todo_id" \in DOMAIN p
         /\ p.module_key = r.moduleKey /\ p.todo_id = r.todoId
         /\ p.completed = r.completed
         /\ (r.notes = NoNote => p.notes = NullNote)
         /\ (r.notes # NoNote /\ r.notes # "" => p.notes = r.notes)

\* The upsert `p` is for the record stored under key `id`.
IsFor(p, id) ==
    IF "row_id" \in DOMAIN p
    THEN TableKey(p.module_key, p.table_id, p.row_id) = id
    ELSE TodoKey(p.module_key, p.todo_id) = id

\* The records that were unsynced when the batch started, in the order the
\* batch processes them: todos, then table rows, each in key order.
BatchOrder ==
    LET dirty(k) == k \in obs.dirtyAtStart
    IN  SelectSeq(TodoKeysSorted, dirty) \o SelectSeq(TableKeysSorted, dirty)

\* The batch passed its precondition check and has returned, no UI write
\* overlapped it and no local-store call of it failed.
QuietBatchDone ==
    /\ b.pc = "done"
    /\ obs.user = "user"
    /\ obs.uiWrites = {}
    /\ ~obs.storeFailed

\* C2: the sync engine only stamps syncedAt: no step of syncAll changes the
\* completed flag, the notes or the data of a stored record (or creates or
\* removes one), whatever the UI writes in between.
C2_SyncKeepsContent ==
    [][b' # b =>
          /\ \A k \in TodoKeySpace : Content(todos', k) = Content(todos, k)
          /\ \A k \in TableKeySpace : Content(tables', k) = Content(tables, k)]_vars

\* C3: when a batch ends, every record the UI wrote while it was in flight
\* is either still unsynced or was upserted by that batch with the content
\* it now has.
C3_WrittenIsPushedOrDirty ==
    b.pc = "done" =>
        \A id \in obs.uiWrites :
            \/ Rec(id) = NoRec
            \/ Rec(id).syncedAt = NoTime
            \/ \E i \in 1..Len(remoteLog) : Carries(remoteLog[i], Rec(id))

\* C4: every UI mutation of a record that is marked synced leaves it
\* unsynced, so that the unsynced lists show it again.
C4_MutationClearsSyncedAt ==
    [][b' = b =>
          /\ \A k \in TodoKeySpace :
                (todos[k] # NoRec /\ todos[k].syncedAt # NoTime
                    /\ todos'[k] # NoRec /\ todos'[k] # todos[k])
                  => todos'[k].syncedAt = NoTime
          /\ \A k \in TableKeySpace :
                (tables[k] # NoRec /\ tables[k].syncedAt # NoTime
                    /\ tables'[k] # NoRec /\ tables'[k] # tables[k])
                  => tables'[k].syncedAt = NoTime]_vars

\* C6: syncAll never rejects.
C6_SyncAllNeverRejects == b.pc # "rejected"

\* C7: a batch called with the remote unconfigured or without a hub, or for
\* which no user is resolved, has returned with both counts 0, has issued
\* no upsert and has written no local record.
C7_FailedPreconditionDoesNothing ==
    (b.pc # "idle"
        /\ (~obs.cfgAtCall \/ obs.hubAtCall = NoHub \/ obs.user = "null"))
    => /\ b.pc = "done"
       /\ b.todosSynced = 0
       /\ b.tablesSynced = 0
       /\ remoteLog = <<>>
       /\ obs.marked = {}

C7_Witness ==
    /\ b.pc = "done"
    /\ obs.cfgAtCall
    /\ obs.hubAtCall # NoHub
    /\ obs.user = "null"
    /\ Cardinality(obs.dirtyAtStart) >= 2

\* C8: in a batch no UI write overlaps, a record whose push failed is left
\* unsynced with exactly one error for it; and, the local store working,
\* every other record of the batch, before or after it, is marked synced
\* and counted, and nothing else is reported.
C8_FailedPushIsIsolated ==
    (b.pc = "done" /\ obs.user = "user" /\ obs.uiWrites = {}) =>
        /\ \A id \in obs.pushFailed :
              /\ Rec(id).syncedAt = NoTime
              /\ Cardinality({i \in 1..Len(b.errors) : b.errors[i] = PushError(id)}) = 1
        /\ ~obs.storeFailed =>
              /\ \A id \in obs.dirtyAtStart \ obs.pushFailed :
                    Rec(id).syncedAt # NoTime
              /\ Len(b.errors) = Cardinality(obs.pushFailed)
              /\ b.todosSynced =
                    Cardinality((obs.dirtyAtStart \cap TodoKeySpace) \ obs.pushFailed)
              /\ b.tablesSynced =
                    Cardinality((obs.dirtyAtStart \cap TableKeySpace) \ obs.pushFailed)

\* A batch over three records whose first push failed and whose later
\* records, a todo and a table row, were marked.
C8_Witness ==
    /\ QuietBatchDone
    /\ Len(BatchOrder) = 3
    /\ obs.pushFailed = {BatchOrder[1]}
    /\ b.todosSynced = 1
    /\ b.tablesSynced = 1

\* C9 as claimed: with the remote call failing for record K only, records
\* 1..K-1 end synced, record K and all records after it end unsynced, and
\* the one error is K's.
C9_LaterRecordsStayUnsynced ==
    (QuietBatchDone /\ Cardinality(obs.pushFailed) = 1) =>
        /\ \A j \in 1..Len(BatchOrder) :
              IF \E l \in 1..j : BatchOrder[l] \in obs.pushFailed
              THEN Rec(BatchOrder[j]).syncedAt = NoTime
              ELSE Rec(BatchOrder[j]).syncedAt # NoTime
        /\ \E id \in obs.pushFailed : b.errors = <<PushError(id)>>

\* C9 amended: with the remote call failing for record K only, record K
\* ends unsynced, every other record of the batch, before and after K, ends
\* synced, and the one error is K's.
C9_OnlyFailedRecordStaysUnsynced ==
    (QuietBatchDone /\ Cardinality(obs.pushFailed) = 1) =>
        /\ \A j \in 1..Len(BatchOrder) :
              IF BatchOrder[j] \in obs.pushFailed
              THEN Rec(BatchOrder[j]).syncedAt = NoTime
              ELSE Rec(BatchOrder[j]).syncedAt # NoTime
        /\ \E id \in obs.pushFailed : b.errors = <<PushError(id)>>

\* A batch over three records in which the push of the second one failed.
C9_Witness ==
    /\ QuietBatchDone
    /\ Len(BatchOrder) = 3
    /\ obs.pushFailed = {BatchOrder[2]}

\* C10: a batch that passed its preconditions, with every remote and local
\* call succeeding, no UI write and no hub change meanwhile, leaves both
\* unsynced lists empty and has issued exactly one upsert per record that
\* was unsynced at its start, carrying that record's identity and content
\* under the current hub.
C10_CleanBatchPushesEachOnce ==
    (QuietBatchDone /\ obs.pushFailed = {} /\ ~obs.hubChanged) =>
        /\ getUnsyncedTodos = <<>>
        /\ getUnsyncedTableRows = <<>>
        /\ Len(remoteLog) = Cardinality(obs.dirtyAtStart)
        /\ \A id \in obs.dirtyAtStart :
              \E i \in 1..Len(remoteLog) :
                  /\ IsFor(remoteLog[i], id)
                  /\ Carries(remoteLog[i], Rec(id))
                  /\ remoteLog[i].hub_id = currentHubId
                  /\ currentHubId \in HubIds
                  /\ \A j \in 1..Len(remoteLog) : IsFor(remoteLog[j], id) => j = i

\* A clean batch over two todos, one of them with a note, and a table row.
C10_Witness ==
    /\ QuietBatchDone
    /\ obs.pushFailed = {}
    /\ ~obs.hubChanged
    /\ Cardinality(obs.dirtyAtStart) = 3
    /\ \E id \in obs.dirtyAtStart \cap TodoKeySpace : Rec(id).notes = "n"

\* C11: a batch that passed its preconditions when no todo and no table row
\* was unsynced, no UI write overlapping it and the local store working,
\* returns both counts 0 and no error and has issued no upsert.
C11_NothingToSync ==
    (QuietBatchDone /\ obs.dirtyAtStart = {}) =>
        /\ b.todosSynced = 0
        /\ b.tablesSynced = 0
        /\ b.errors = <<>>
        /\ remoteLog = <<>>

\* Such a batch over a store that holds a synced todo and a synced row.
C11_Witness ==
    /\ QuietBatchDone
    /\ obs.dirtyAtStart = {}
    /\ \E k \in TodoKeySpace : todos[k] # NoRec
    /\ \E k \in TableKeySpace : tables[k] # NoRec

\* C17: toggleTodo stores and returns the negation of the completed flag it
\* found (true when it found no record), stores a completedAt exactly when
\* the new flag is true, and keeps the note it found.
C17_ToggleNegatesAndKeepsNote ==
    call.op = "toggleTodo" =>
        LET todo == getTodo(call.moduleKey, call.todoId)
            expected == IF call.before = NoRec THEN TRUE
                        ELSE ~call.before.completed
        IN  /\ call.ret = expected
            /\ todo # NoRec
            /\ todo.completed = expected
            /\ todo.completedAt # NoTime <=> expected
            /\ todo.notes = IF call.before = NoRec THEN NoNote
                            ELSE call.before.notes

\* A completed todo with a note has been toggled back.
C17_Witness ==
    /\ call.op = "toggleTodo"
    /\ call.before # NoRec
    /\ call.before.completed
    /\ call.before.notes = "n"
    /\ call.ret = FALSE

\* C18: two toggleTodo calls in a row on an identity that had no record
\* leave its todo not completed and without completedAt.
C18_ToggleTwiceFromUnset ==
    (call.op = "toggleTodo" /\ call.streak = 2) =>
        LET todo == getTodo(call.moduleKey, call.todoId)
        IN  /\ todo # NoRec
            /\ todo.completed = FALSE
            /\ todo.completedAt = NoTime

\* The second toggle ran at a later clock reading than the first.
C18_Witness ==
    /\ call.op = "toggleTodo"
    /\ call.streak = 2
    /\ call.before.completedAt # NoTime
    /\ call.before.completedAt < now

\* The identities of the rows getTableRows(moduleKey, tableId) returns.
Listed(moduleKey, tableId) ==
    LET found == getTableRows(moduleKey, tableId)
    IN  {<<found[i].moduleKey, found[i].tableId, found[i].rowId>> :
            i \in 1..Len(found)}

\* C19: whatever was saved and deleted, in whatever order,
\* getTableRows(moduleKey, tableId) returns exactly the rows saved with
\* that moduleKey and tableId and not deleted since.
C19_ListIsExact ==
    \A m \in ModuleKeys, tb \in TableIds :
        Listed(m, tb) = {id \in liveRows : id[1] = m /\ id[2] = tb}

\* C12: whatever startAutoSync, stopAutoSync and hubChanged events have
\* happened, at most one interval timer is active, and it is the one
\* syncInterval names.
C12_AtMostOneTimer ==
    /\ Cardinality(timers) <= 1
    /\ timers = IF syncInterval = NoTimer THEN {} ELSE {syncInterval}

\* Auto-sync was started on a running engine: the second timer is the only one.
C12_Witness ==
    /\ nTimers = 2
    /\ timers = {2}
    /\ hist.op \in {"start", "hub"}

\* C13: a startAutoSync call has made exactly one syncAll() invocation, and
\* so has an offline-to-online transition with the remote configured and a
\* hub selected.
C13_OneImmediateBatch ==
    /\ hist.op = "start" => hist.calls = 1
    /\ (hist.op = "online" /\ configured /\ currentHubId # NoHub)
          => hist.calls = 1

\* With auto-sync started, the device came back online and the batch this
\* started is in flight.
C13_Witness ==
    /\ hist.op = "online"
    /\ hist.calls = 1
    /\ syncInterval # NoTimer
    /\ b.pc = "getUser"

\* C14: right after the hub was cleared (hubChanged with null) or
\* stopAutoSync was called, no interval timer is active.
C14_ClearedOrStoppedIsIdle ==
    hist.op \in {"stop", "hubCleared"} =>
        /\ syncInterval = NoTimer
        /\ timers = {}

\* C15: right after stopAutoSync, isAutoSyncRunning() is false and no timer
\* is left to tick; and a batch that stopAutoSync found in flight completes
\* as any other: with its pushes succeeding, the local store working and no
\* UI write meanwhile, every record it found unsynced is pushed and marked.
C15_StopLeavesBatchRunning ==
    /\ hist.op = "stop" => (syncInterval = NoTimer /\ timers = {})
    /\ (QuietBatchDone /\ hist.stopAt # "idle" /\ obs.pushFailed = {}) =>
          /\ \A id \in obs.dirtyAtStart : Rec(id).syncedAt # NoTime
          /\ obs.marked = obs.dirtyAtStart
          /\ Len(remoteLog) = Cardinality(obs.dirtyAtStart)
          /\ b.todosSynced + b.tablesSynced = Cardinality(obs.dirtyAtStart)

\* stopAutoSync ran while a batch was resolving its user; the batch then
\* listed, pushed and marked a todo and a table row.
C15_Witness ==
    /\ QuietBatchDone
    /\ hist.op = "stop"
    /\ hist.stopAt = "early"
    /\ obs.pushFailed = {}
    /\ Cardinality(obs.marked) = 2
    /\ syncInterval = NoTimer

\* C20: the sync engine never creates a record: no step of syncAll stores a
\* todo or a table row under a key that held none, whatever the UI deleted
\* in between.
C20_SyncNeverRecreates ==
    [][b' # b =>
          /\ \A k \in TodoKeySpace : todos[k] = NoRec => todos'[k] = NoRec
          /\ \A k \in TableKeySpace : tables[k] = NoRec => tables'[k] = NoRec]_vars

\* Every stored todo and table row has syncedAt set.
AllSynced ==
    /\ \A k \in TodoKeySpace : todos[k] # NoRec => todos[k].syncedAt # NoTime
    /\ \A k \in TableKeySpace : tables[k] # NoRec => tables[k].syncedAt # NoTime

\* C16: with auto-sync running on a device that stays online, the remote
\* configured, a hub selected, the user signed in and pushes that eventually
\* succeed, once the pages stop writing every stored todo and table row
\* ends up, and stays, with syncedAt set.
C16_EventuallyAllSynced == [](syncInterval # NoTimer => <>[]AllSynced)

\* A batch started under auto-sync has marked records and everything stored,
\* two todos and a row, is synced.
C16_Witness ==
    /\ AllSynced
    /\ syncInterval # NoTimer
    /\ hist.op = "tick"
    /\ b.pc = "done"
    /\ obs.marked # {}
    /\ Cardinality({k \in TodoKeySpace : todos[k] # NoRec}) = 2
    /\ \E k \in TableKeySpace : tables[k] # NoRec

\* C21: after any sequence of toggleTodo, batchUpdateChecklistItems and
\* markTodoSynced calls, every stored todo has a completedAt exactly when
\* its completed flag is true.
C21_StampIffCompleted ==
    \A k \in TodoKeySpace :
        todos[k] # NoRec => (todos[k].completedAt # NoTime <=> todos[k].completed)

\* A completed todo has just been marked synced, at a later clock reading
\* than its completion, next to a stored todo that is not completed.
C21_Witness ==
    /\ call.op = "markTodoSynced"
    /\ call.before # NoRec
    /\ call.before.completed
    /\ call.before.completedAt < now
    /\ todos[call.before.id].syncedAt = now
    /\ \E k \in TodoKeySpace : todos[k] # NoRec /\ ~todos[k].completed

\* C25: markTodoSynced and markTableRowSynced on an existing record change
\* only syncedAt: every other stored field, a row's updatedAt included, has
\* the value it had before the call.
C25_MarkChangesOnlySyncedAt ==
    (call.op \in {"markTodoSynced", "markTableRowSynced"} /\ call.before # NoRec)
    => /\ Rec(call.before.id) # NoRec
       /\ [Rec(call.before.id) EXCEPT !.syncedAt = NoTime]
             = [call.before EXCEPT !.syncedAt = NoTime]

\* C22: whatever the UI does meanwhile, every record a batch has marked
\* synced is one that this batch has upserted successfully before, and no
\* record whose push failed in the batch is marked by it.
C22_MarkedOnlyAfterOwnPush ==
    \A id \in obs.marked :
        /\ \E i \in 1..Len(remoteLog) : IsFor(remoteLog[i], id)
        /\ id \notin obs.pushFailed

\* A batch the UI wrote into has ended with one push failed and two records,
\* a todo and a table row, marked.
C22_Witness ==
    /\ b.pc = "done"
    /\ obs.uiWrites # {}
    /\ Cardinality(obs.pushFailed) = 1
    /\ obs.marked \cap TodoKeySpace # {}
    /\ obs.marked \cap TableKeySpace # {}

\* C27: every upsert of a batch carries the hub id that was current when the
\* batch passed its precondition check, whatever hubChanged events arrive
\* while it is in flight: never another hub, never no hub.
C27_UpsertsCarryHubAtCheck ==
    \A i \in 1..Len(remoteLog) :
        /\ remoteLog[i].hub_id = obs.hubAtCall
        /\ remoteLog[i].hub_id # NoHub

\* C23: no record is upserted twice for the same local state: two
\* invocations of syncAll in flight together never both upsert a record
\* that no page has written since the first of them started.
C23_PushedOncePerWrite ==
    (b.pc # "idle" /\ b2.pc # "idle") =>
        \A i \in 1..Len(remoteLog), j \in 1..Len(remoteLog2) :
            \A id \in TodoKeySpace \cup TableKeySpace :
                (IsFor(remoteLog[i], id) /\ IsFor(remoteLog2[j], id))
                    => id \in obs.uiWrites

\* C28: once every toggleTodo call on the row has completed, n of them
\* since the row had no record, its stored flag is (n is odd).
C28_EachToggleFlipsOnce ==
    (nToggled > 0 /\ \A p \in Togglers : toggler[p].pc = "idle") =>
        /\ getTodo(ToggledModule, ToggledId) # NoRec
        /\ getTodo(ToggledModule, ToggledId).completed = (nToggled % 2 = 1)

\* C26: a timer tick or an online event has called syncAll only if the device
\* reports online and the remote store is configured; and a tick while the
\* device is offline or the remote unconfigured starts no batch and changes
\* nothing: not the timer, not the batch in flight, not the stores.
C26_TickAndOnlineAreGuarded ==
    /\ []((hist.op \in {"tick", "online"} /\ hist.calls > 0)
            => (online /\ configured))
    /\ [][((\E t \in 1..MaxTimers : TimerTick(t)) /\ ~(online /\ configured))
            => /\ hist'.calls = 0
               /\ UNCHANGED <<dbVars, storeVars, syncVars, apiVars, raceVars>>
               /\ UNCHANGED <<syncInterval, timers, nTimers, online>>]_vars

\* The timer ticked on an offline device that holds an unsynced todo, the
\* remote configured and a hub selected: no batch was started.
C26_Witness ==
    /\ hist.op = "tick"
    /\ hist.calls = 0
    /\ ~online
    /\ configured
    /\ currentHubId # NoHub
    /\ b.pc = "idle"
    /\ getUnsyncedTodos # <<>>

\* C29: while auto-sync is not running (never started, or stopped), no
\* event calls syncAll: not the online event, not a hub change.
C29_NoBatchWhileNotRunning ==
    (syncInterval = NoTimer
        /\ hist.op \in {"online", "offline", "hub", "hubCleared", "tick"})
    => hist.calls = 0

\* C24: provided every call it awaits settles, a batch that has started
\* eventually completes, with its result or with a rejection; and no step
\* of a batch in flight, the completing one included, touches the polling
\* timer: a timer that is active stays active through the batch, whether
\* the batch succeeds or collects errors.
C24_BatchCompletesTimerStays ==
    /\ [](b.pc # "idle" => <>Settling)
    /\ [][(b.pc # "idle" /\ b' # b)
            => UNCHANGED <<syncInterval, timers, nTimers>>]_vars

\* A batch started under auto-sync has completed with a failed push and a
\* failed local-store call, and the timer is active.
C24_Witness ==
    /\ b.pc = "done"
    /\ obs.pushFailed # {}
    /\ obs.storeFailed
    /\ Len(b.errors) >= 2
    /\ syncInterval # NoTimer
    /\ syncInterval \in timers

\* C30: whatever is stored, getModuleData(path).tables holds exactly the
\* stored rows whose moduleKey is the module key derived from the path, each
\* under its tableId, and no row of another module.
C30_ExportHoldsOwnRowsOnly ==
    \A path \in ModulePaths :
        LET exported == getModuleData(path).tables
            own == {k \in TableKeySpace :
                      tables[k] # NoRec /\ tables[k].moduleKey = moduleKeyOf(path)}
        IN  /\ \A tb \in DOMAIN exported : \A i \in 1..Len(exported[tb]) :
                  /\ exported[tb][i].moduleKey = moduleKeyOf(path)
                  /\ exported[tb][i].tableId = tb
            /\ \A k \in own :
                  /\ tables[k].tableId \in DOMAIN exported
                  /\ \E i \in 1..Len(exported[tables[k].tableId]) :
                        exported[tables[k].tableId][i] = tables[k]

====
